---- MODULE Spec2Model ----
(***************************************************************************)
(* The context-aware command assistance subsystem of ldapie: the Command   *)
(* Catalog (COMMAND_PATTERNS), the Session Context (HelpContext), the      *)
(* analyzer and the interactive shell's read loop.                         *)
(*                                                                         *)
(* Strings that the code inspects character by character (command lines,   *)
(* command names, syntax templates) are sequences of one-character         *)
(* strings.  Hint and example texts, which the code only copies, are TLA+  *)
(* strings.  A Python None is the empty tuple and a present value v is the *)
(* one-element tuple <<v>>.                                                *)
(***************************************************************************)
EXTENDS Integers, Sequences, FiniteSets, TLC

None == <<>>
Some(v) == <<v>>

(***************************************************************************)
(* Bounds of the model.                                                    *)
(***************************************************************************)
\* calls of Session Context methods explored in one behaviour of Spec
MaxCalls == 5
\* add_command calls beyond the history capacity explored by SpecHistory
MaxOverflow == 2
\* number of times consecutive lines differ in a behaviour of SpecHistory
MaxSwitches == 1
\* shell starts, lines read and help-key calls in a behaviour of SpecShell
MaxShellCalls == 3
\* calls of QueryHistory methods in a behaviour of SpecQuery, and the
\* QueryHistory objects alive at once
MaxQueryCalls == 3
MaxStores == 2
\* calls in a behaviour of SpecComplete
MaxCompleteCalls == 3
\* the start of the shell and the lines read in a behaviour of SpecServer
MaxServerCalls == 4

(***************************************************************************)
(* Program constants.                                                      *)
(***************************************************************************)
\* deque(maxlen=20)
HistoryMaxLen == 20
\* get_close_matches(..., n=3, cutoff=0.6) in analyze_command
AnalyzeMatchCount == 3
\* get_close_matches(..., n=1, cutoff=0.6) in get_command_help
HelpMatchCount == 1
\* cutoff=0.6 as the fraction CutoffNum / CutoffDen
CutoffNum == 6
CutoffDen == 10

(***************************************************************************)
(* Character strings.                                                      *)
(***************************************************************************)
\* the characters str.split() treats as separators
Whitespace == {" ", "\t", "\n", "\r"}

\* the characters of the model's inputs in code-point order (str comparison)
Alphabet ==
    <<"\t", "\n", "\r", " ", "'", "(", ")", "*", "-", "1", "2", "<", "=",
      ">", "?", "[", "]", "_", "a", "b", "c", "d", "e", "f", "h", "i", "j",
      "l", "m", "n", "o", "p", "r", "s", "t", "v", "w", "x", "y", "z">>

Ord(c) == CHOOSE i \in 1..Len(Alphabet) : Alphabet[i] = c

\* s < t in Python's str ordering
RECURSIVE StrLess(_, _)
StrLess(s, t) ==
    IF t = <<>> THEN FALSE
    ELSE IF s = <<>> THEN TRUE
    ELSE IF Head(s) = Head(t) THEN StrLess(Tail(s), Tail(t))
    ELSE Ord(Head(s)) < Ord(Head(t))

\* str.split(): the maximal runs of non-whitespace characters, in order
RECURSIVE SplitFrom(_, _, _)
SplitFrom(s, i, cur) ==
    IF i > Len(s)
    THEN IF cur = <<>> THEN <<>> ELSE <<cur>>
    ELSE IF s[i] \in Whitespace
         THEN IF cur = <<>> THEN SplitFrom(s, i + 1, <<>>)
              ELSE <<cur>> \o SplitFrom(s, i + 1, <<>>)
         ELSE SplitFrom(s, i + 1, Append(cur, s[i]))

Split(s) == SplitFrom(s, 1, <<>>)

\* " ".join(tokens): used to write the input lines of the model
RECURSIVE Join(_)
Join(tokens) ==
    IF tokens = <<>> THEN <<>>
    ELSE IF Len(tokens) = 1 THEN tokens[1]
    ELSE tokens[1] \o <<" ">> \o Join(Tail(tokens))

\* str.startswith(c) and str.endswith(c) for a single character c
StartsWith(s, c) == Len(s) > 0 /\ s[1] = c
EndsWith(s, c) == Len(s) > 0 /\ s[Len(s)] = c

\* c in s
HasChar(s, c) == \E i \in 1..Len(s) : s[i] = c

\* the elements of a sequence
Range(s) == {s[i] : i \in 1..Len(s)}

(***************************************************************************)
(* The Command Catalog at load time.                                       *)
(***************************************************************************)
c_search == <<"s","e","a","r","c","h">>
c_info == <<"i","n","f","o">>
c_compare == <<"c","o","m","p","a","r","e">>
c_schema == <<"s","c","h","e","m","a">>
c_add == <<"a","d","d">>
c_modify == <<"m","o","d","i","f","y">>
c_delete == <<"d","e","l","e","t","e">>
c_rename == <<"r","e","n","a","m","e">>
c_interactive == <<"i","n","t","e","r","a","c","t","i","v","e">>

\* list(COMMAND_PATTERNS.keys()): the command names in dictionary order
CommandNames ==
    <<c_search, c_info, c_compare, c_schema, c_add, c_modify, c_delete,
      c_rename, c_interactive>>

CommandSet == Range(CommandNames)

syntax_search ==
    <<"s","e","a","r","c","h"," ","<","h","o","s","t",">"," ","<","b","a",
      "s","e","_","d","n",">"," ","[","<","f","i","l","t","e","r",">","]",
      " ","[","o","p","t","i","o","n","s","]">>
syntax_info ==
    <<"i","n","f","o"," ","<","h","o","s","t",">"," ","[","o","p","t","i",
      "o","n","s","]">>
syntax_compare ==
    <<"c","o","m","p","a","r","e"," ","<","h","o","s","t",">"," ","<","d",
      "n","1",">"," ","<","d","n","2",">"," ","[","o","p","t","i","o","n",
      "s","]">>
syntax_schema ==
    <<"s","c","h","e","m","a"," ","<","h","o","s","t",">"," ","[","<","o",
      "b","j","e","c","t","_","c","l","a","s","s",">","]"," ","[","o","p",
      "t","i","o","n","s","]">>
syntax_add ==
    <<"a","d","d"," ","<","h","o","s","t",">"," ","<","d","n",">"," ","[",
      "o","p","t","i","o","n","s","]">>
syntax_modify ==
    <<"m","o","d","i","f","y"," ","<","h","o","s","t",">"," ","<","d","n",
      ">"," ","[","o","p","t","i","o","n","s","]">>
syntax_delete ==
    <<"d","e","l","e","t","e"," ","<","h","o","s","t",">"," ","<","d","n",
      ">"," ","[","o","p","t","i","o","n","s","]">>
syntax_rename ==
    <<"r","e","n","a","m","e"," ","<","h","o","s","t",">"," ","<","d","n",
      ">"," ","<","n","e","w","_","r","d","n",">"," ","[","o","p","t","i",
      "o","n","s","]">>
syntax_interactive ==
    <<"i","n","t","e","r","a","c","t","i","v","e"," ","[","o","p","t","i",
      "o","n","s","]">>

CatalogAtLoad ==
    [n \in CommandSet |->
      CASE n = c_search ->
        [syntax |-> syntax_search,
         examples |->
           <<"search ldap.example.com 'dc=example,dc=com'",
             "search ldap.example.com 'dc=example,dc=com' '(objectClass=person)' -a cn -a mail",
             "search ldap.example.com 'dc=example,dc=com' --tree">>,
         next_steps |->
           <<"Use --json, --ldif, or --csv to change output format",
             "Add -a attribute to specify attributes to retrieve",
             "Use --tree to view results in a tree structure">>,
         common_errors |->
           <<"Missing quotes around base_dn or filter",
             "Invalid filter syntax",
             "Using special characters without escaping">>]
      [] n = c_info ->
        [syntax |-> syntax_info,
         examples |->
           <<"info ldap.example.com",
             "info ldap.example.com -u 'cn=admin,dc=example,dc=com'">>,
         next_steps |->
           <<"Use schema command to view object class details",
             "Check server capabilities with --json option">>,
         common_errors |->
           <<"Authentication required for detailed information">>]
      [] n = c_compare ->
        [syntax |-> syntax_compare,
         examples |->
           <<"compare ldap.example.com 'uid=user1,ou=people,dc=example,dc=com' 'uid=user2,ou=people,dc=example,dc=com'",
             "compare ldap.example.com 'uid=user1,ou=people,dc=example,dc=com' 'uid=user2,ou=people,dc=example,dc=com' -a mail -a cn">>,
         next_steps |->
           <<"Specify attributes to compare with -a option",
             "Use --json for machine-readable output">>,
         common_errors |->
           <<"DNs must be properly quoted",
             "Both entries must exist">>]
      [] n = c_schema ->
        [syntax |-> syntax_schema,
         examples |->
           <<"schema ldap.example.com",
             "schema ldap.example.com person",
             "schema ldap.example.com --attr mail">>,
         next_steps |->
           <<"Look up specific object class details",
             "Check attribute syntax with --attr option">>,
         common_errors |->
           <<"Object class or attribute may not exist">>]
      [] n = c_add ->
        [syntax |-> syntax_add,
         examples |->
           <<"add ldap.example.com 'cn=newuser,ou=people,dc=example,dc=com' --class inetOrgPerson --attr cn=newuser --attr sn=User",
             "add ldap.example.com 'cn=newgroup,ou=groups,dc=example,dc=com' --json group.json">>,
         next_steps |->
           <<"Use search to verify entry was added",
             "Add additional attributes with --attr option">>,
         common_errors |->
           <<"Missing required attributes for object class",
             "DN already exists",
             "Parent DN doesn't exist">>]
      [] n = c_modify ->
        [syntax |-> syntax_modify,
         examples |->
           <<"modify ldap.example.com 'cn=user1,ou=people,dc=example,dc=com' --add mail=user1@example2.com",
             "modify ldap.example.com 'cn=user1,ou=people,dc=example,dc=com' --replace mobile=555-1234",
             "modify ldap.example.com 'cn=user1,ou=people,dc=example,dc=com' --delete mail=user1@example.com">>,
         next_steps |->
           <<"Use search to verify changes",
             "Combine multiple modifications in one command">>,
         common_errors |->
           <<"Attempting to modify non-existent entry",
             "Missing required attributes",
             "Deleting a value that doesn't exist">>]
      [] n = c_delete ->
        [syntax |-> syntax_delete,
         examples |->
           <<"delete ldap.example.com 'cn=user1,ou=people,dc=example,dc=com'",
             "delete ldap.example.com 'ou=people,dc=example,dc=com' --recursive">>,
         next_steps |->
           <<"Use --recursive for subtree deletion",
             "Use search to verify deletion">>,
         common_errors |->
           <<"Entry has children (use --recursive)",
             "Entry doesn't exist",
             "Insufficient permissions">>]
      [] n = c_rename ->
        [syntax |-> syntax_rename,
         examples |->
           <<"rename ldap.example.com 'cn=user1,ou=people,dc=example,dc=com' 'cn=user1renamed'",
             "rename ldap.example.com 'cn=user1,ou=people,dc=example,dc=com' 'cn=user1' --parent 'ou=admins,dc=example,dc=com'">>,
         next_steps |->
           <<"Use search to verify the rename",
             "Use --parent to move entry to different location">>,
         common_errors |->
           <<"New RDN already exists",
             "Parent DN doesn't exist",
             "Missing required attributes in new RDN">>]
      [] OTHER ->
        [syntax |-> syntax_interactive,
         examples |->
           <<"interactive",
             "interactive --host ldap.example.com --base 'dc=example,dc=com'">>,
         next_steps |->
           <<"Use 'help' command to see available commands",
             "Use 'connect' to establish connection",
             "Use 'ls' to list entries">>,
         common_errors |->
           <<"Not connected to server (use connect command)",
             "Not setting base DN (use cd command)">>]]

\* the hints get_suggestions appends
ResultHints ==
    <<"Use --json to output results in JSON format",
      "Use --tree to view results in a hierarchical tree",
      "Use --csv to export results to CSV",
      "Use compare to compare two entries from the results">>
AuthTip == "Use -u and -p options to authenticate for more privileges"
SslTip == "Consider using --ssl for secure connection"

\* the commands whose token 1 is a host, and whose token 2 is a base DN
HostCommands ==
    {c_search, c_info, c_add, c_modify, c_delete, c_rename, c_compare,
     c_schema}
BaseDnCommands ==
    {c_search, c_add, c_modify, c_delete, c_rename, c_compare}

(***************************************************************************)
(* State.                                                                  *)
(***************************************************************************)
VARIABLES
    COMMAND_PATTERNS,   \* the catalog dictionary of the module
    instance,           \* HelpContext._instance: None or Some(object id)
    initialized,        \* number of times _initialize has run
    refs,               \* the object ids HelpContext() has returned, in order
    command_history,    \* deque(maxlen=20) of raw lines
    command_frequency,  \* defaultdict(int): <<key, count>> pairs in insertion order
    current_context,    \* command, host, base_dn, filter, search_results, ...
    session_state,      \* connected, authenticated, server, connection, ssl_enabled
    error_history,      \* list of {command, error, timestamp}
    shell,              \* the LDAPShell class whose cmdloop runs: None or Some(name)
    console,            \* what the console shows last
    dismiss_threads,    \* the started dismiss_overlay threads still sleeping
    typed,              \* the line input() returned in the last loop iteration
    dispatched,         \* the line that iteration handed to cmd.Cmd.onecmd
    call,               \* the last call made: its name and arguments
    ret,                \* what the last call returned
    ncalls,             \* number of calls made so far
    history_file,       \* what the path ~/.ldapie_query_history.json holds
    stores,             \* the history dictionary of every QueryHistory object
    completer,          \* the TabCompletion object: None or Some(record)
    line_buffer,        \* readline.get_line_buffer()
    log,                \* every line passed to add_command, in call order
    switches            \* number of add_command calls whose line differs from the previous one

instVars == <<instance, initialized, refs>>

ctxVars ==
    <<command_history, command_frequency, current_context, session_state,
      error_history>>

shellVars == <<shell, console, dismiss_threads, typed, dispatched>>

completionVars == <<history_file, stores, completer, line_buffer>>

logVars == <<log, switches>>

vars ==
    <<COMMAND_PATTERNS, instVars, ctxVars, shellVars, completionVars, call,
      ret, ncalls, logVars>>

\* HelpContext._initialize
InitialContext ==
    [command |-> None, subcommand |-> None, host |-> None, base_dn |-> None,
     filter |-> None, attributes |-> <<>>, search_results |-> None,
     last_entry |-> None, operation_result |-> None]

InitialSessionState ==
    [connected |-> FALSE, authenticated |-> FALSE, server |-> None,
     connection |-> None, ssl_enabled |-> FALSE]

NoCall == [op |-> "none"]
\* the value of a call that returns None
NoRet == [returns |-> <<"None">>]
\* no file at the path of the query history
NoFile == [missing |-> TRUE]
\* a console nothing has been printed on
BlankConsole == [shows |-> "nothing"]

\* module load: the catalog is built, no HelpContext exists and no shell runs
Init ==
    /\ COMMAND_PATTERNS = CatalogAtLoad
    /\ instance = None
    /\ initialized = 0
    /\ refs = <<>>
    /\ command_history = <<>>
    /\ command_frequency = <<>>
    /\ current_context = InitialContext
    /\ session_state = InitialSessionState
    /\ error_history = <<>>
    /\ shell = None
    /\ console = BlankConsole
    /\ dismiss_threads = <<>>
    /\ typed = None
    /\ dispatched = None
    /\ history_file = NoFile
    /\ stores = <<>>
    /\ completer = None
    /\ line_buffer = <<>>
    /\ call = NoCall
    /\ ret = NoRet
    /\ ncalls = 0
    /\ log = <<>>
    /\ switches = 0

(***************************************************************************)
(* HelpContext.__new__ / _initialize                                       *)
(***************************************************************************)
\* a __new__ that initialises whatever instance exists
NeedsInitializeAlways(inst) == TRUE

\* does __new__ run _initialize?
NeedsInitialize(inst) == inst = None

\* HelpContext(): the instance variables and the reference handed out
NewEffect ==
    /\ IF NeedsInitialize(instance)
       THEN /\ instance' = Some(initialized + 1)
            /\ initialized' = initialized + 1
       ELSE UNCHANGED <<instance, initialized>>
    /\ refs' = Append(refs, instance'[1])

\* the value of an instance attribute as the next method call finds it
AfterNew(initial, current) ==
    IF NeedsInitialize(instance) THEN initial ELSE current

Construct ==
    /\ NewEffect
    /\ command_history' = AfterNew(<<>>, command_history)
    /\ command_frequency' = AfterNew(<<>>, command_frequency)
    /\ current_context' = AfterNew(InitialContext, current_context)
    /\ session_state' = AfterNew(InitialSessionState, session_state)
    /\ error_history' = AfterNew(<<>>, error_history)
    /\ call' = [op |-> "HelpContext"]
    /\ ret' = [instance |-> instance'[1]]
    /\ ncalls' = ncalls + 1
    /\ UNCHANGED <<COMMAND_PATTERNS, completionVars, shellVars, logVars>>

\* a method can be called once HelpContext() has handed out a reference
HasReference == refs # <<>>

(***************************************************************************)
(* HelpContext.add_command                                                 *)
(***************************************************************************)
\* an append that drops the oldest line one call late
DequeAppendLate(d, x, m) ==
    IF Len(d) > m THEN Append(Tail(d), x) ELSE Append(d, x)

\* deque.append on a deque(maxlen=m)
DequeAppend(d, x, m) ==
    IF Len(d) >= m THEN Append(Tail(d), x) ELSE Append(d, x)

\* defaultdict(int): the keys, and d[k]
FreqKeys(d) == {d[i][1] : i \in 1..Len(d)}
FreqIndex(d, k) == CHOOSE i \in 1..Len(d) : d[i][1] = k
FreqCount(d, k) == IF k \in FreqKeys(d) THEN d[FreqIndex(d, k)][2] ELSE 0

\* a counter that follows the history: it stops at the history capacity
FreqIncrementCapped(d, k) ==
    IF k \in FreqKeys(d)
    THEN [d EXCEPT ![FreqIndex(d, k)] =
                     <<k, IF FreqCount(d, k) < HistoryMaxLen
                          THEN FreqCount(d, k) + 1 ELSE HistoryMaxLen>>]
    ELSE Append(d, <<k, 1>>)

\* defaultdict(int): d[k] += 1
FreqIncrement(d, k) ==
    IF k \in FreqKeys(d)
    THEN [d EXCEPT ![FreqIndex(d, k)] = <<k, FreqCount(d, k) + 1>>]
    ELSE Append(d, <<k, 1>>)

\* a positional update that clears the fields the line does not supply
ContextAfterClearing(ctx, parts) ==
    LET cmd == parts[1]
        c1 == [ctx EXCEPT !.command = Some(cmd)]
        c2 == IF Len(parts) > 1 /\ cmd \in HostCommands
              THEN [c1 EXCEPT !.host = Some(parts[2])]
              ELSE [c1 EXCEPT !.host = None]
        c3 == IF Len(parts) > 2 /\ cmd \in BaseDnCommands
              THEN [c2 EXCEPT !.base_dn = Some(parts[3])]
              ELSE [c2 EXCEPT !.base_dn = None]
        c4 == IF Len(parts) > 3 /\ cmd = c_search
              THEN [c3 EXCEPT !.filter = Some(parts[4])]
              ELSE [c3 EXCEPT !.filter = None]
    IN  IF cmd \in DOMAIN COMMAND_PATTERNS THEN c4 ELSE ctx

\* the positional update of current_context
ContextAfter(ctx, parts) ==
    LET cmd == parts[1]
        c1 == [ctx EXCEPT !.command = Some(cmd)]
        c2 == IF Len(parts) > 1 /\ cmd \in HostCommands
              THEN [c1 EXCEPT !.host = Some(parts[2])] ELSE c1
        c3 == IF Len(parts) > 2 /\ cmd \in BaseDnCommands
              THEN [c2 EXCEPT !.base_dn = Some(parts[3])] ELSE c2
        c4 == IF Len(parts) > 3 /\ cmd = c_search
              THEN [c3 EXCEPT !.filter = Some(parts[4])] ELSE c3
    IN  IF cmd \in DOMAIN COMMAND_PATTERNS THEN c4 ELSE ctx

\* current_context after add_command(command_str)
AddedContext(ctx, command_str) ==
    LET parts == Split(command_str)
    IN  IF parts = <<>> THEN ctx ELSE ContextAfter(ctx, parts)

\* the history and the frequency table after add_command(command_str)
HistoryEffect(command_str, hist, freq) ==
    /\ command_history' = DequeAppend(hist, command_str, HistoryMaxLen)
    /\ LET parts == Split(command_str)
       IN  command_frequency' =
             IF parts = <<>> THEN freq ELSE FreqIncrement(freq, parts[1])
    /\ log' = Append(log, command_str)
    /\ switches' = IF log # <<>> /\ log[Len(log)] # command_str
                   THEN switches + 1 ELSE switches

\* the body of add_command on the attributes hist, freq and ctx
AddCommandEffect(command_str, hist, freq, ctx) ==
    /\ HistoryEffect(command_str, hist, freq)
    /\ current_context' = AddedContext(ctx, command_str)

add_command(command_str) ==
    /\ HasReference
    /\ AddCommandEffect(command_str, command_history, command_frequency,
                        current_context)
    /\ call' = [op |-> "add_command", command_str |-> command_str]
    /\ ret' = NoRet
    /\ ncalls' = ncalls + 1
    /\ UNCHANGED <<COMMAND_PATTERNS, completionVars,
                   instVars, session_state, error_history,
                   shellVars>>

(***************************************************************************)
(* HelpContext.add_error                                                   *)
(***************************************************************************)
\* _get_timestamp: the clock of the model is the number of calls made
add_error(command_str, error_msg) ==
    /\ HasReference
    /\ error_history' =
         Append(error_history,
                [command |-> command_str, error |-> error_msg,
                 timestamp |-> ncalls])
    /\ call' = [op |-> "add_error", command_str |-> command_str,
                error_msg |-> error_msg]
    /\ ret' = NoRet
    /\ ncalls' = ncalls + 1
    /\ UNCHANGED <<COMMAND_PATTERNS, completionVars, instVars, command_history,
                   command_frequency, current_context, session_state,
                   shellVars, logVars>>

(***************************************************************************)
(* HelpContext.update_session_state                                        *)
(***************************************************************************)
\* an update that tests the truth of an argument ("if connected:") instead of
\* comparing it with None
SessionStateAfterTruthy(st, connected, authenticated, server, connection, ssl_enabled) ==
    LET s1 == IF connected # None /\ connected[1]
              THEN [st EXCEPT !.connected = connected[1]] ELSE st
        s2 == IF authenticated # None /\ authenticated[1]
              THEN [s1 EXCEPT !.authenticated = authenticated[1]] ELSE s1
        s3 == IF server # None
              THEN [s2 EXCEPT !.server = server] ELSE s2
        s4 == IF connection # None
              THEN [s3 EXCEPT !.connection = connection] ELSE s3
        s5 == IF ssl_enabled # None /\ ssl_enabled[1]
              THEN [s4 EXCEPT !.ssl_enabled = ssl_enabled[1]] ELSE s4
    IN  s5

SessionStateAfter(st, connected, authenticated, server, connection, ssl_enabled) ==
    LET s1 == IF connected # None
              THEN [st EXCEPT !.connected = connected[1]] ELSE st
        s2 == IF authenticated # None
              THEN [s1 EXCEPT !.authenticated = authenticated[1]] ELSE s1
        s3 == IF server # None
              THEN [s2 EXCEPT !.server = server] ELSE s2
        s4 == IF connection # None
              THEN [s3 EXCEPT !.connection = connection] ELSE s3
        s5 == IF ssl_enabled # None
              THEN [s4 EXCEPT !.ssl_enabled = ssl_enabled[1]] ELSE s4
    IN  s5

update_session_state(connected, authenticated, server, connection, ssl_enabled) ==
    /\ HasReference
    /\ session_state' =
         SessionStateAfter(session_state, connected, authenticated, server,
                           connection, ssl_enabled)
    /\ call' = [op |-> "update_session_state", connected |-> connected,
                authenticated |-> authenticated, server |-> server,
                connection |-> connection, ssl_enabled |-> ssl_enabled]
    /\ ret' = NoRet
    /\ ncalls' = ncalls + 1
    /\ UNCHANGED <<COMMAND_PATTERNS, completionVars, instVars, command_history,
                   command_frequency, current_context, error_history,
                   shellVars, logVars>>

(***************************************************************************)
(* HelpContext.update_search_results                                       *)
(***************************************************************************)
update_search_results(results) ==
    /\ HasReference
    /\ current_context' = [current_context EXCEPT !.search_results = Some(results)]
    /\ call' = [op |-> "update_search_results", results |-> results]
    /\ ret' = NoRet
    /\ ncalls' = ncalls + 1
    /\ UNCHANGED <<COMMAND_PATTERNS, completionVars, instVars, command_history,
                   command_frequency, session_state, error_history,
                   shellVars, logVars>>

(***************************************************************************)
(* HelpContext.get_suggestions                                             *)
(***************************************************************************)
\* truth value of current_context.get("search_results")
HasSearchResults(ctx) ==
    ctx.search_results # None /\ ctx.search_results[1] # <<>>

\* suggestions["next_commands"] and suggestions["tips"] are the catalog's own
\* list objects when a current command is set, so extend and append write
\* through to COMMAND_PATTERNS; with no current command they are fresh lists.
\* The value returned and the catalog after the call:
Suggestions(patterns, ctx, st) ==
    LET cur == ctx.command
        known == cur # None /\ cur[1] \in DOMAIN patterns
        info == patterns[cur[1]]
        next0 == IF known THEN info.next_steps ELSE <<>>
        tips0 == IF known THEN info.common_errors ELSE <<>>
        next1 == IF HasSearchResults(ctx)
                 THEN next0 \o ResultHints ELSE next0
        tips1 == IF ~st.authenticated /\ st.connected
                 THEN Append(tips0, AuthTip) ELSE tips0
        tips2 == IF ~st.ssl_enabled /\ st.connected
                 THEN Append(tips1, SslTip) ELSE tips1
    IN  [patterns |->
             IF known
             THEN [patterns EXCEPT ![cur[1]].next_steps = next1,
                                   ![cur[1]].common_errors = tips2]
             ELSE patterns,
         value |-> [next_commands |-> next1,
                    examples |-> IF known THEN info.examples ELSE <<>>,
                    tips |-> tips2,
                    corrections |-> <<>>]]

get_suggestions ==
    /\ HasReference
    /\ LET s == Suggestions(COMMAND_PATTERNS, current_context, session_state)
       IN  /\ COMMAND_PATTERNS' = s.patterns
           /\ ret' = s.value
    /\ call' = [op |-> "get_suggestions"]
    /\ ncalls' = ncalls + 1
    /\ UNCHANGED <<completionVars, instVars, ctxVars, shellVars, logVars>>

(***************************************************************************)
(* difflib.get_close_matches over the catalog names                        *)
(***************************************************************************)
\* length of the common run of a from i and b from j, inside a[..ahi], b[..bhi]
RECURSIVE RunLength(_, _, _, _, _, _)
RunLength(a, b, i, j, ahi, bhi) ==
    IF i > ahi \/ j > bhi \/ a[i] # b[j] THEN 0
    ELSE 1 + RunLength(a, b, i + 1, j + 1, ahi, bhi)

\* SequenceMatcher.find_longest_match: the longest common block <<i, j, k>> of
\* a[alo..ahi] and b[blo..bhi], the one starting earliest in a, then in b
LongestMatch(a, b, alo, ahi, blo, bhi) ==
    LET pairs == (alo..ahi) \X (blo..bhi)
        len(p) == RunLength(a, b, p[1], p[2], ahi, bhi)
        best == CHOOSE p \in pairs :
                  \A q \in pairs :
                    \/ len(p) > len(q)
                    \/ /\ len(p) = len(q)
                       /\ \/ p[1] < q[1]
                          \/ p[1] = q[1] /\ p[2] <= q[2]
    IN  <<best[1], best[2], len(best)>>

\* SequenceMatcher.get_matching_blocks: total size of the matching blocks
RECURSIVE MatchTotal(_, _, _, _, _, _)
MatchTotal(a, b, alo, ahi, blo, bhi) ==
    IF alo > ahi \/ blo > bhi THEN 0
    ELSE LET m == LongestMatch(a, b, alo, ahi, blo, bhi)
         IN  IF m[3] = 0 THEN 0
             ELSE m[3]
                  + MatchTotal(a, b, alo, m[1] - 1, blo, m[2] - 1)
                  + MatchTotal(a, b, m[1] + m[3], ahi, m[2] + m[3], bhi)

\* SequenceMatcher.ratio() = 2.0 * M / T as the fraction <<2 * M, T>>
Ratio(a, b) == <<2 * MatchTotal(a, b, 1, Len(a), 1, Len(b)), Len(a) + Len(b)>>

\* a cutoff of 0.5
WithinCutoffHalf(r) == r[1] * 2 >= r[2]

\* ratio >= cutoff
WithinCutoff(r) == r[1] * CutoffDen >= CutoffNum * r[2]

\* (score, x) > (score, y) as heapq.nlargest compares the result tuples
RanksBefore(rx, x, ry, y) ==
    \/ rx[1] * ry[2] > ry[1] * rx[2]
    \/ rx[1] * ry[2] = ry[1] * rx[2] /\ StrLess(y, x)

RECURSIVE SortedByRank(_, _)
SortedByRank(S, score) ==
    IF S = {} THEN <<>>
    ELSE LET top == CHOOSE x \in S :
                      \A y \in S \ {x} : RanksBefore(score[x], x, score[y], y)
         IN  <<top>> \o SortedByRank(S \ {top}, score)

FirstN(s, n) == SubSeq(s, 1, IF Len(s) < n THEN Len(s) ELSE n)

\* get_close_matches(word, list(COMMAND_PATTERNS.keys()), n=n, cutoff=0.6)
get_close_matches(word, n) ==
    LET score == [x \in DOMAIN COMMAND_PATTERNS |-> Ratio(x, word)]
        close == {x \in DOMAIN COMMAND_PATTERNS : WithinCutoff(score[x])}
    IN  FirstN(SortedByRank(close, score), n)

(***************************************************************************)
(* HelpContext.get_command_help                                            *)
(***************************************************************************)
\* the returned value: the catalog entry, or an error record
CommandHelp(command) ==
    IF command \in DOMAIN COMMAND_PATTERNS
    THEN COMMAND_PATTERNS[command]
    ELSE LET matches == get_close_matches(command, HelpMatchCount)
         IN  IF matches # <<>>
             THEN [error |-> <<"Command '", command,
                               "' not found. Did you mean '", matches[1], "'?">>,
                   suggested_command |-> matches[1],
                   help |-> COMMAND_PATTERNS[matches[1]]]
             ELSE [error |-> <<"Command '", command, "' not found.">>]

get_command_help(command) ==
    /\ HasReference
    /\ ret' = CommandHelp(command)
    /\ call' = [op |-> "get_command_help", command |-> command]
    /\ ncalls' = ncalls + 1
    /\ UNCHANGED <<COMMAND_PATTERNS, completionVars,
                   instVars, ctxVars, shellVars, logVars>>

(***************************************************************************)
(* HelpContext.analyze_command                                             *)
(***************************************************************************)
\* p.startswith('[') and p.endswith(']')
IsBracketed(p) == StartsWith(p, "[") /\ EndsWith(p, "]")

\* a count that takes the optional tokens for required ones
RequiredCountAll(syntax) == Len(Split(syntax)) - 1

\* required_count: the non-bracketed tokens of the syntax, less the command
RequiredCount(syntax) ==
    Len(SelectSeq(Split(syntax), LAMBDA p : ~IsBracketed(p))) - 1

\* the returned value
Analysis(command_str) ==
    LET parts == Split(command_str)
        cmd == parts[1]
        matches == get_close_matches(cmd, AnalyzeMatchCount)
        cmd_info == COMMAND_PATTERNS[cmd]
    IN  IF parts = <<>> THEN [error |-> <<"Empty command">>]
        ELSE IF cmd \notin DOMAIN COMMAND_PATTERNS
        THEN IF matches # <<>>
             THEN [error |-> <<"Command '", cmd,
                               "' not found. Did you mean '", matches[1], "'?">>,
                   suggested_commands |-> matches]
             ELSE [error |-> <<"Command '", cmd, "' not found.">>]
        ELSE IF Len(parts) < RequiredCount(cmd_info.syntax) + 1
        THEN [error |-> <<"Not enough arguments for '", cmd, "'. Syntax: ",
                          cmd_info.syntax>>,
              syntax |-> cmd_info.syntax,
              examples |-> cmd_info.examples]
        ELSE [command |-> cmd,
              arguments |-> Tail(parts),
              syntax |-> cmd_info.syntax,
              examples |-> cmd_info.examples,
              next_steps |-> cmd_info.next_steps,
              common_errors |-> cmd_info.common_errors]

analyze_command(command_str) ==
    /\ HasReference
    /\ ret' = Analysis(command_str)
    /\ call' = [op |-> "analyze_command", command_str |-> command_str]
    /\ ncalls' = ncalls + 1
    /\ UNCHANGED <<COMMAND_PATTERNS, completionVars,
                   instVars, ctxVars, shellVars, logVars>>

(***************************************************************************)
(* CommandValidator                                                        *)
(***************************************************************************)
\* {**a, **b}: the keys of b override those of a
Merged(a, b) == b @@ a

t_try ==
    <<"T", "r", "y", ":">>

\* f"Try: search {args[0]} {args[1]} '({filter_arg})'" without the
\* parentheses
SearchSuggestionBare(args) ==
    t_try \o <<" ">> \o c_search \o <<" ">> \o args[1] \o <<" ">> \o args[2]
    \o <<" ", "'">> \o args[3] \o <<"'">>

\* f"Try: search {args[0]} {args[1]} '({filter_arg})'"
SearchSuggestion(args) ==
    t_try \o <<" ">> \o c_search \o <<" ">> \o args[1] \o <<" ">> \o args[2]
    \o <<" ", "'", "(">> \o args[3] \o <<")", "'">>

\* a check that asks for the filter as well
ValidateSearchStrict(command_str, analysis) ==
    LET args == analysis.arguments
    IN  IF Len(args) < 3
        THEN [error |-> <<"Not enough arguments for search command">>,
              syntax |-> analysis.syntax,
              examples |-> analysis.examples]
        ELSE IF ~(StartsWith(args[3], "(") /\ EndsWith(args[3], ")"))
        THEN Merged([warning |-> "LDAP filter should be enclosed in parentheses",
                     suggestion |-> SearchSuggestion(args)],
                    analysis)
        ELSE Merged(analysis,
                    [validation |-> "Search command looks valid",
                     preview |-> <<"Would search ", args[1],
                                   " with base DN ", args[2]>>])

\* CommandValidator._validate_search
ValidateSearch(command_str, analysis) ==
    LET args == analysis.arguments
    IN  IF Len(args) < 2
        THEN [error |-> <<"Not enough arguments for search command">>,
              syntax |-> analysis.syntax,
              examples |-> analysis.examples]
        ELSE IF Len(args) > 2
                /\ ~(StartsWith(args[3], "(") /\ EndsWith(args[3], ")"))
        THEN Merged([warning |-> "LDAP filter should be enclosed in parentheses",
                     suggestion |-> SearchSuggestion(args)],
                    analysis)
        ELSE Merged(analysis,
                    [validation |-> "Search command looks valid",
                     preview |-> <<"Would search ", args[1],
                                   " with base DN ", args[2]>>])

\* sub in s
RECURSIVE Contains(_, _)
Contains(s, sub) ==
    IF Len(s) < Len(sub) THEN FALSE
    ELSE IF SubSeq(s, 1, Len(sub)) = sub THEN TRUE
    ELSE Contains(Tail(s), sub)

t_recursive == <<"-", "-", "r", "e", "c", "u", "r", "s", "i", "v", "e">>
t_r == <<"-", "r">>

\* CommandValidator._validate_delete
ValidateDelete(command_str, analysis) ==
    IF ~Contains(command_str, t_recursive) /\ ~Contains(command_str, t_r)
    THEN Merged(analysis,
                [validation |-> "Delete command structure looks valid",
                 warning |-> "Note: This will only delete the entry if it has no children",
                 suggestion |-> "Add --recursive flag to delete the entry and all its children",
                 preview |-> <<"Would delete the specified entry">>])
    ELSE Merged(analysis,
                [validation |-> "Delete command structure looks valid",
                 warning |-> "This will delete the entry and all its children recursively",
                 preview |-> <<"Would recursively delete the specified entry and all children">>])

\* _validate_add, _validate_modify, _validate_rename
ValidateAdd(command_str, analysis) ==
    Merged(analysis,
           [validation |-> "Add command structure looks valid",
            preview |-> <<"Would add new entry to the directory">>])

ValidateModify(command_str, analysis) ==
    Merged(analysis,
           [validation |-> "Modify command structure looks valid",
            preview |-> <<"Would modify the specified entry">>])

ValidateRename(command_str, analysis) ==
    Merged(analysis,
           [validation |-> "Rename command structure looks valid",
            preview |-> <<"Would rename the specified entry">>])

\* the value validate_command returns
Validation(command_str) ==
    LET analysis == Analysis(command_str)
        cmd == analysis.command
    IN  IF "error" \in DOMAIN analysis THEN analysis
        ELSE IF cmd = c_search THEN ValidateSearch(command_str, analysis)
        ELSE IF cmd = c_add THEN ValidateAdd(command_str, analysis)
        ELSE IF cmd = c_modify THEN ValidateModify(command_str, analysis)
        ELSE IF cmd = c_delete THEN ValidateDelete(command_str, analysis)
        ELSE IF cmd = c_rename THEN ValidateRename(command_str, analysis)
        ELSE Merged(analysis,
                    [validation |-> "Command structure looks valid",
                     preview |-> <<"Command would execute: ", command_str>>])

\* a validate_command that records the line as add_command does
validate_command_recording(command_str) ==
    /\ HasReference
    /\ AddCommandEffect(command_str, command_history, command_frequency,
                        current_context)
    /\ ret' = Validation(command_str)
    /\ call' = [op |-> "validate_command", command_str |-> command_str]
    /\ ncalls' = ncalls + 1
    /\ UNCHANGED <<COMMAND_PATTERNS, completionVars,
                   instVars, session_state, error_history,
                   shellVars>>

\* CommandValidator.validate_command, on a validator that holds a reference
\* HelpContext() handed out
validate_command(command_str) ==
    /\ HasReference
    /\ ret' = Validation(command_str)
    /\ call' = [op |-> "validate_command", command_str |-> command_str]
    /\ ncalls' = ncalls + 1
    /\ UNCHANGED <<COMMAND_PATTERNS, completionVars,
                   instVars, ctxVars, shellVars, logVars>>

\* CommandValidator(): with no help_context given it calls HelpContext()
CommandValidator ==
    /\ NewEffect
    /\ command_history' = AfterNew(<<>>, command_history)
    /\ command_frequency' = AfterNew(<<>>, command_frequency)
    /\ current_context' = AfterNew(InitialContext, current_context)
    /\ session_state' = AfterNew(InitialSessionState, session_state)
    /\ error_history' = AfterNew(<<>>, error_history)
    /\ call' = [op |-> "CommandValidator"]
    /\ ret' = NoRet
    /\ ncalls' = ncalls + 1
    /\ UNCHANGED <<COMMAND_PATTERNS, completionVars, shellVars, logVars>>

(***************************************************************************)
(* The interactive shells, started with no server and no connection:       *)
(* ldapie_utils.LDAPShell, whose cmdloop reads lines with get_input, and   *)
(* ldapie.interactive.shell.LDAPShell, whose cmdloop is cmd.Cmd.cmdloop    *)
(* and reads lines with input().                                           *)
(***************************************************************************)
LegacyShell == "ldapie_utils.LDAPShell"
InteractiveShell == "ldapie.interactive.shell.LDAPShell"

\* str.lstrip, str.rstrip, str.strip
RECURSIVE LStrip(_)
LStrip(s) ==
    IF s # <<>> /\ s[1] \in Whitespace THEN LStrip(Tail(s)) ELSE s

RECURSIVE RStrip(_)
RStrip(s) ==
    IF s # <<>> /\ s[Len(s)] \in Whitespace
    THEN RStrip(SubSeq(s, 1, Len(s) - 1)) ELSE s

Strip(s) == RStrip(LStrip(s))

\* str.replace(c, '')
RemoveChar(s, c) == SelectSeq(s, LAMBDA x : x # c)

\* ' ?' in s
HasSpaceQuestion(s) ==
    \E i \in 1..(Len(s) - 1) : s[i] = " " /\ s[i + 1] = "?"

\* str.replace(' ?', '')
RECURSIVE RemoveSpaceQuestion(_)
RemoveSpaceQuestion(s) ==
    IF s = <<>> THEN <<>>
    ELSE IF Len(s) >= 2 /\ s[1] = " " /\ s[2] = "?"
         THEN RemoveSpaceQuestion(SubSeq(s, 3, Len(s)))
         ELSE <<s[1]>> \o RemoveSpaceQuestion(Tail(s))

\* show_help_overlay: console.clear(), the panel, "Current input: <text>"
Overlay(input_text) == [shows |-> "overlay", input |-> input_text]

\* cmd.Cmd.identchars, over the characters of the model
IdentChars ==
    {"1", "2", "_", "a", "b", "c", "d", "e", "f", "g", "h", "i", "j", "l",
     "m", "n", "o", "p", "r", "s", "t", "u", "v", "w", "x", "y", "z"}

RECURSIVE IdentLength(_)
IdentLength(s) ==
    IF s # <<>> /\ s[1] \in IdentChars THEN 1 + IdentLength(Tail(s)) ELSE 0

\* cmd.Cmd.parseline of a line that starts with neither '?' nor '!'
parseline(line) ==
    LET s == Strip(line)
        i == IdentLength(s)
    IN  [cmd |-> SubSeq(s, 1, i), arg |-> Strip(SubSeq(s, i + 1, Len(s)))]

t_base == <<"b", "a", "s", "e">>

\* is the line one for do_base with an argument?
SetsBase(line) == parseline(line).cmd = t_base /\ parseline(line).arg # <<>>

\* what the handler of the line prints in a shell that is not connected:
\* do_search, do_info, do_base, default
HandlerConsole(sh, line) ==
    LET p == parseline(line)
    IN  IF p.cmd \in {c_search, c_info}
        THEN [shows |-> "error", text |-> "Not connected to any LDAP server"]
        ELSE IF p.cmd = t_base
        THEN IF p.arg # <<>>
             THEN [shows |-> "info", text |-> "Base DN set to: ",
                   base_dn |-> p.arg]
             ELSE [shows |-> "info", text |-> "Current base DN: ",
                   base_dn |-> sh.base_dn]
        ELSE [shows |-> "default", text |-> "*** Unknown syntax: ",
              line |-> line]

\* do_base on the shell object; only shell.py keeps query_history['base']
HandlerShell(sh, line) ==
    IF SetsBase(line)
    THEN LET arg == parseline(line).arg
             seen == \E i \in 1..Len(sh.query_base) : sh.query_base[i] = arg
             appended == Append(sh.query_base, arg)
             kept == IF Len(appended) > 20
                     THEN SubSeq(appended, Len(appended) - 19, Len(appended))
                     ELSE appended
         IN  [sh EXCEPT !.base_dn = arg,
                        !.query_base =
                            IF sh.class = InteractiveShell /\ ~seen
                            THEN kept ELSE @]
    ELSE sh

\* do_base on the help context
HandlerContext(ctx, line) ==
    IF SetsBase(line)
    THEN [ctx EXCEPT !.base_dn = Some(parseline(line).arg)]
    ELSE ctx

\* LDAPShell.onecmd and the handler cmd.Cmd.onecmd dispatches to; shown is
\* what the console shows when onecmd is entered
OnecmdEffect(line, shown) ==
    LET sh == shell[1]
    IN  IF line = <<>>
        THEN /\ dispatched' = None
             /\ console' = shown
             /\ UNCHANGED <<shell, command_history, command_frequency,
                            current_context, logVars>>
        ELSE /\ dispatched' = Some(line)
             /\ console' = HandlerConsole(sh, line)
             /\ shell' = Some(HandlerShell(sh, line))
             /\ IF sh.help_available
                THEN /\ HistoryEffect(line, command_history, command_frequency)
                     /\ current_context' =
                          HandlerContext(AddedContext(current_context, line),
                                         line)
                ELSE UNCHANGED <<command_history, command_frequency,
                                 current_context, logVars>>

\* LDAPShell.__init__ and the entry of cmdloop, for either class;
\* ldapie_utils.start_interactive_session has already called HelpContext()
\* once when the class is created
LDAPShell__init__(class, help_available, server, conn, base_dn) ==
    /\ shell = None
    /\ shell' = Some([class |-> class, help_available |-> help_available,
                      server |-> server, conn |-> conn,
                      connected |-> conn # None /\ conn[1].bound,
                      base_dn |-> base_dn, search_history |-> <<>>,
                      query_search |-> <<>>, query_base |-> <<>>,
                      query_host |-> <<>>])
    /\ IF help_available
       THEN /\ IF NeedsInitialize(instance)
               THEN /\ instance' = Some(initialized + 1)
                    /\ initialized' = initialized + 1
               ELSE UNCHANGED <<instance, initialized>>
            /\ refs' = IF class = LegacyShell
                       THEN refs \o <<instance'[1], instance'[1]>>
                       ELSE Append(refs, instance'[1])
            /\ command_history' = AfterNew(<<>>, command_history)
            /\ command_frequency' = AfterNew(<<>>, command_frequency)
            /\ current_context' = AfterNew(InitialContext, current_context)
            /\ error_history' = AfterNew(<<>>, error_history)
            /\ session_state' =
                 SessionStateAfter(
                     AfterNew(InitialSessionState, session_state),
                     Some(conn # None /\ conn[1].bound),
                     Some(conn # None /\ conn[1].bound), server, conn, None)
       ELSE UNCHANGED <<instVars, ctxVars>>
    /\ console' = IF class = InteractiveShell
                  THEN [shows |-> "intro"] ELSE console
    /\ call' = [op |-> "LDAPShell", class |-> class]
    /\ ret' = NoRet
    /\ ncalls' = ncalls + 1
    /\ UNCHANGED <<COMMAND_PATTERNS, completionVars,
                   dismiss_threads, typed, dispatched,
                   logVars>>

\* the shell started with no server, no connection and no base DN
LDAPShell(class, help_available) ==
    LDAPShell__init__(class, help_available, None, None, <<>>)

\* one iteration of ldapie_utils.LDAPShell.cmdloop on the line the user
\* types: get_input, precmd, onecmd, postcmd
legacy_cmdloop(line) ==
    /\ shell # None
    /\ shell[1].class = LegacyShell
    /\ LET detected == EndsWith(line, "?") /\ shell[1].help_available
           line_without_question == Strip(SubSeq(line, 1, Len(line) - 1))
           handed == IF detected THEN line_without_question ELSE line
       IN  /\ OnecmdEffect(handed,
                           IF detected THEN Overlay(line_without_question)
                           ELSE console)
           /\ ret' = [overlay |-> detected, line |-> handed]
    /\ typed' = Some(line)
    /\ call' = [op |-> "legacy_cmdloop", line |-> line]
    /\ ncalls' = ncalls + 1
    /\ UNCHANGED <<COMMAND_PATTERNS, completionVars,
                   instVars, session_state, error_history,
                   dismiss_threads>>

\* one iteration of ldapie.interactive.shell.LDAPShell.cmdloop, that is of
\* cmd.Cmd.cmdloop: input(), precmd, onecmd, postcmd; get_input is not called
cmdloop(line) ==
    /\ shell # None
    /\ shell[1].class = InteractiveShell
    /\ OnecmdEffect(line, console)
    /\ ret' = [overlay |-> FALSE, line |-> line]
    /\ typed' = Some(line)
    /\ call' = [op |-> "cmdloop", line |-> line]
    /\ ncalls' = ncalls + 1
    /\ UNCHANGED <<COMMAND_PATTERNS, completionVars,
                   instVars, session_state, error_history,
                   dismiss_threads>>

\* ldapie.interactive.shell.LDAPShell.get_input called on its own with the
\* line input() returns
get_input(line) ==
    /\ shell # None
    /\ shell[1].class = InteractiveShell
    /\ LET detected == shell[1].help_available /\ HasChar(line, "?")
           line_without_question ==
               IF HasSpaceQuestion(line)
               THEN Strip(RemoveSpaceQuestion(line))
               ELSE Strip(RemoveChar(line, "?"))
       IN  /\ console' = IF detected THEN Overlay(line_without_question)
                         ELSE console
           /\ ret' = [returns |-> IF detected THEN <<>> ELSE line]
    /\ call' = [op |-> "get_input", line |-> line]
    /\ ncalls' = ncalls + 1
    /\ UNCHANGED <<COMMAND_PATTERNS, completionVars, instVars, ctxVars, shell,
                   dismiss_threads, typed, dispatched, logVars>>

(***************************************************************************)
(* help_overlay.process_help_key and its dismiss_overlay thread            *)
(***************************************************************************)
\* a trigger that gives up the dismiss threads started before it
process_help_key_cancelling(current_input) ==
    /\ IF HasChar(current_input, "?")
       THEN LET input_without_question ==
                    Strip(RemoveChar(current_input, "?"))
            IN  /\ NewEffect
                /\ command_history' = AfterNew(<<>>, command_history)
                /\ command_frequency' = AfterNew(<<>>, command_frequency)
                /\ current_context' = AfterNew(InitialContext, current_context)
                /\ session_state' = AfterNew(InitialSessionState, session_state)
                /\ error_history' = AfterNew(<<>>, error_history)
                /\ console' = Overlay(input_without_question)
                /\ dismiss_threads' = <<input_without_question>>
                /\ ret' = [returns |-> <<>>]
       ELSE /\ ret' = [returns |-> current_input]
            /\ UNCHANGED <<instVars, ctxVars, console, dismiss_threads>>
    /\ call' = [op |-> "process_help_key", current_input |-> current_input]
    /\ ncalls' = ncalls + 1
    /\ UNCHANGED <<COMMAND_PATTERNS, completionVars,
                   shell, typed, dispatched, logVars>>

process_help_key(current_input) ==
    /\ IF HasChar(current_input, "?")
       THEN LET input_without_question ==
                    Strip(RemoveChar(current_input, "?"))
            IN  /\ NewEffect
                /\ command_history' = AfterNew(<<>>, command_history)
                /\ command_frequency' = AfterNew(<<>>, command_frequency)
                /\ current_context' = AfterNew(InitialContext, current_context)
                /\ session_state' = AfterNew(InitialSessionState, session_state)
                /\ error_history' = AfterNew(<<>>, error_history)
                /\ console' = Overlay(input_without_question)
                /\ dismiss_threads' =
                     Append(dismiss_threads, input_without_question)
                /\ ret' = [returns |-> <<>>]
       ELSE /\ ret' = [returns |-> current_input]
            /\ UNCHANGED <<instVars, ctxVars, console, dismiss_threads>>
    /\ call' = [op |-> "process_help_key", current_input |-> current_input]
    /\ ncalls' = ncalls + 1
    /\ UNCHANGED <<COMMAND_PATTERNS, completionVars,
                   shell, typed, dispatched, logVars>>

\* a thread that clears only the overlay it was started for
dismiss_overlay_own ==
    \E i \in 1..Len(dismiss_threads) :
        /\ console' = IF console = Overlay(dismiss_threads[i])
                      THEN [shows |-> "input", input |-> dismiss_threads[i]]
                      ELSE console
        /\ dismiss_threads' =
             SubSeq(dismiss_threads, 1, i - 1)
             \o SubSeq(dismiss_threads, i + 1, Len(dismiss_threads))
        /\ UNCHANGED <<COMMAND_PATTERNS, completionVars,
                       instVars, ctxVars, shell, typed,
                       dispatched, call, ret, ncalls, logVars>>

\* a dismiss_overlay thread wakes up: console.clear() and "Input: <text>"
dismiss_overlay ==
    \E i \in 1..Len(dismiss_threads) :
        /\ console' = [shows |-> "input", input |-> dismiss_threads[i]]
        /\ dismiss_threads' =
             SubSeq(dismiss_threads, 1, i - 1)
             \o SubSeq(dismiss_threads, i + 1, Len(dismiss_threads))
        /\ UNCHANGED <<COMMAND_PATTERNS, completionVars,
                       instVars, ctxVars, shell, typed,
                       dispatched, call, ret, ncalls, logVars>>

(***************************************************************************)
(* QueryHistory: the history dictionary in memory and the JSON file at     *)
(* ~/.ldapie_query_history.json.                                           *)
(*                                                                         *)
(* A Python value is one of [str |-> chars], [int |-> n], [none |-> TRUE], *)
(* [list |-> values], [dict |-> function from hashable values to values];  *)
(* a JSON text is one of [string |-> chars], [number |-> n],               *)
(* [null |-> TRUE], [array |-> texts], [object |-> function from the       *)
(* member names to texts].  The file is NoFile, [unreadable |-> TRUE]      *)
(* (open raises PermissionError), [undecodable |-> TRUE] (bytes that are   *)
(* not UTF-8), [corrupt |-> TRUE] (text that is not JSON) or               *)
(* [json |-> text].                                                        *)
(***************************************************************************)
PyStr(s) == [str |-> s]
PyInt(n) == [int |-> n]
PyNone == [none |-> TRUE]
PyList(l) == [list |-> l]
PyDict(f) == [dict |-> f]

\* the size _add_to_history keeps a category at
QueryHistoryBound == 20

k_search == <<"s", "e", "a", "r", "c", "h">>
k_base == <<"b", "a", "s", "e">>
k_host == <<"h", "o", "s", "t">>

\* self.history as __init__ builds it
EmptyHistory ==
    [k \in {PyStr(k_search), PyStr(k_base), PyStr(k_host)} |-> PyList(<<>>)]

\* str(n) for the small numbers of the model
Digits(n) == <<CASE n = 0 -> "0" [] n = 1 -> "1" [] n = 2 -> "2"
                 [] n = 3 -> "3" [] n = 4 -> "4" [] n = 5 -> "5"
                 [] n = 6 -> "6" [] n = 7 -> "7" [] n = 8 -> "8"
                 [] OTHER -> "9">>

\* the member name json.dump writes for a dictionary key
KeyName(k) ==
    IF "str" \in DOMAIN k THEN k.str
    ELSE IF "int" \in DOMAIN k THEN Digits(k.int)
    ELSE <<"n", "u", "l", "l">>

\* json.load: the Python value of a JSON text
RECURSIVE Decode(_)
Decode(j) ==
    IF "string" \in DOMAIN j THEN PyStr(j.string)
    ELSE IF "number" \in DOMAIN j THEN PyInt(j.number)
    ELSE IF "null" \in DOMAIN j THEN PyNone
    ELSE IF "array" \in DOMAIN j
    THEN PyList([i \in 1..Len(j.array) |-> Decode(j.array[i])])
    ELSE PyDict([k \in {PyStr(n) : n \in DOMAIN j.object} |->
                 Decode(j.object[k.str])])

\* json.dump: the JSON text of a Python value
RECURSIVE Encode(_)
Encode(v) ==
    IF "str" \in DOMAIN v THEN [string |-> v.str]
    ELSE IF "int" \in DOMAIN v THEN [number |-> v.int]
    ELSE IF "none" \in DOMAIN v THEN [null |-> TRUE]
    ELSE IF "list" \in DOMAIN v
    THEN [array |-> [i \in 1..Len(v.list) |-> Encode(v.list[i])]]
    ELSE [object |->
            [n \in {KeyName(k) : k \in DOMAIN v.dict} |->
               Encode(v.dict[CHOOSE k \in DOMAIN v.dict : KeyName(k) = n])]]

\* can the value be a dictionary key or a set element?
Hashable(v) == "list" \notin DOMAIN v /\ "dict" \notin DOMAIN v

\* is the element of an update sequence a pair: a list of two values with a
\* hashable first, or a string of two characters?
IsPair(e) ==
    IF "list" \in DOMAIN e THEN Len(e.list) = 2 /\ Hashable(e.list[1])
    ELSE IF "str" \in DOMAIN e THEN Len(e.str) = 2
    ELSE FALSE

PairKey(e) == IF "list" \in DOMAIN e THEN e.list[1] ELSE PyStr(<<e.str[1]>>)
PairValue(e) == IF "list" \in DOMAIN e THEN e.list[2] ELSE PyStr(<<e.str[2]>>)

\* h after the pairs of the sequence are assigned in order
RECURSIVE Assigned(_, _)
Assigned(h, pairs) ==
    IF pairs = <<>> THEN h
    ELSE Assigned((PairKey(pairs[1]) :> PairValue(pairs[1])) @@ h,
                  Tail(pairs))

\* self.history.update(value): the dictionary afterwards or the exception,
\* which the first element that is not a pair decides; the elements of an
\* update sequence are not dictionaries in the model
Updated(h, v) ==
    IF "dict" \in DOMAIN v THEN [history |-> v.dict @@ h]
    ELSE IF "list" \in DOMAIN v
    THEN IF \A i \in 1..Len(v.list) : IsPair(v.list[i])
         THEN [history |-> Assigned(h, v.list)]
         ELSE LET bad == CHOOSE i \in 1..Len(v.list) :
                            /\ ~IsPair(v.list[i])
                            /\ \A j \in 1..(i - 1) : IsPair(v.list[j])
                  e == v.list[bad]
              IN  IF "int" \in DOMAIN e \/ "none" \in DOMAIN e
                  THEN [raises |-> "TypeError"]
                  ELSE IF "list" \in DOMAIN e /\ Len(e.list) = 2
                  THEN [raises |-> "TypeError"]
                  ELSE [raises |-> "ValueError"]
    ELSE IF "str" \in DOMAIN v
    THEN IF v.str = <<>> THEN [history |-> h] ELSE [raises |-> "ValueError"]
    ELSE [raises |-> "TypeError"]

\* QueryHistory.load_history on the fresh dictionary: the dictionary
\* afterwards, with the warning printed, or the exception that escapes
Loaded(file) ==
    IF "missing" \in DOMAIN file THEN [history |-> EmptyHistory]
    ELSE IF "unreadable" \in DOMAIN file \/ "corrupt" \in DOMAIN file
    THEN [history |-> EmptyHistory,
          printed |-> "Warning: Could not load query history"]
    ELSE IF "undecodable" \in DOMAIN file
    THEN [raises |-> "UnicodeDecodeError"]
    ELSE Updated(EmptyHistory, Decode(file.json))

\* QueryHistory(): __init__ and load_history
QueryHistory ==
    /\ LET loaded == Loaded(history_file)
       IN  IF "raises" \in DOMAIN loaded
           THEN /\ ret' = loaded
                /\ UNCHANGED stores
           ELSE /\ stores' = Append(stores, loaded.history)
                /\ ret' = [store |-> Len(stores) + 1] @@ loaded
    /\ call' = [op |-> "QueryHistory"]
    /\ ncalls' = ncalls + 1
    /\ UNCHANGED <<COMMAND_PATTERNS, instVars, ctxVars, shellVars,
                   history_file, completer, line_buffer, logVars>>

\* list.remove(value): without the first occurrence
RECURSIVE Removed(_, _)
Removed(l, v) ==
    IF l = <<>> THEN <<>>
    ELSE IF l[1] = v THEN Tail(l)
    ELSE <<l[1]>> \o Removed(Tail(l), v)

\* l[-n:]
LastN(l, n) == IF Len(l) > n THEN SubSeq(l, Len(l) - n + 1, Len(l)) ELSE l

\* the list of a category after _add_to_history of a non-empty value
Added(l, value) ==
    LET present == \E i \in 1..Len(l) : l[i] = PyStr(value)
        removed == IF present THEN Removed(l, PyStr(value)) ELSE l
        appended == Append(removed, PyStr(value))
    IN  IF Len(appended) > QueryHistoryBound
        THEN LastN(appended, QueryHistoryBound) ELSE appended

\* what "value in x" followed by x.remove or x.append raises when x is not a
\* list
NotAList(x) ==
    IF "str" \in DOMAIN x \/ "dict" \in DOMAIN x
    THEN [raises |-> "AttributeError"]
    ELSE [raises |-> "TypeError"]

\* save_history: the file after json.dump wrote it
Saved(history) == [json |-> Encode(PyDict(history))]

\* the outcomes of save_history: written, open() refused, the write broken
\* off after open() truncated the file
SaveOutcomes == {"written", "open failed", "write failed"}

\* a save that writes the dictionary as it was before the add
SaveEffectStale(outcome, history, before) ==
    /\ history_file' = IF outcome = "written" THEN Saved(before)
                       ELSE IF outcome = "open failed" THEN history_file
                       ELSE [corrupt |-> TRUE]
    /\ ret' = IF outcome = "written" THEN NoRet
              ELSE [returns |-> <<"None">>,
                    printed |-> "Warning: Could not save query history"]

\* save_history after an add: before is the dictionary the add started from
SaveEffect(outcome, history, before) ==
    /\ history_file' = IF outcome = "written" THEN Saved(history)
                       ELSE IF outcome = "open failed" THEN history_file
                       ELSE [corrupt |-> TRUE]
    /\ ret' = IF outcome = "written" THEN NoRet
              ELSE [returns |-> <<"None">>,
                    printed |-> "Warning: Could not save query history"]

\* QueryHistory._add_to_history on store i, called as op
add_to_history(i, op, history_type, value, outcome) ==
    /\ i \in 1..Len(stores)
    /\ LET history == stores[i]
           x == history[PyStr(history_type)]
       IN  IF value = <<>>
           THEN /\ outcome = "written"
                /\ ret' = NoRet
                /\ UNCHANGED <<stores, history_file>>
           ELSE IF "list" \notin DOMAIN x
           THEN /\ outcome = "written"
                /\ ret' = NotAList(x)
                /\ UNCHANGED <<stores, history_file>>
           ELSE LET after == [history EXCEPT
                                ![PyStr(history_type)] =
                                    PyList(Added(x.list, value))]
                IN  /\ stores' = [stores EXCEPT ![i] = after]
                    /\ SaveEffect(outcome, after, history)
    /\ call' = [op |-> op, store |-> i, value |-> value]
    /\ ncalls' = ncalls + 1
    /\ UNCHANGED <<COMMAND_PATTERNS, instVars, ctxVars, shellVars, completer,
                   line_buffer, logVars>>

add_search(i, filter_query, outcome) ==
    add_to_history(i, "add_search", k_search, filter_query, outcome)

add_base(i, base_dn, outcome) ==
    add_to_history(i, "add_base", k_base, base_dn, outcome)

add_host(i, host, outcome) ==
    add_to_history(i, "add_host", k_host, host, outcome)

\* get_searches, get_bases, get_hosts: the value itself
get(i, op, history_type) ==
    /\ i \in 1..Len(stores)
    /\ ret' = [returns |-> stores[i][PyStr(history_type)]]
    /\ call' = [op |-> op, store |-> i]
    /\ ncalls' = ncalls + 1
    /\ UNCHANGED <<COMMAND_PATTERNS, instVars, ctxVars, shellVars,
                   completionVars, logVars>>

get_searches(i) == get(i, "get_searches", k_search)
get_bases(i) == get(i, "get_bases", k_base)
get_hosts(i) == get(i, "get_hosts", k_host)

\* an earlier run or another process leaves a file at the path
leave_file(file) ==
    /\ history_file' = file
    /\ UNCHANGED <<COMMAND_PATTERNS, instVars, ctxVars, shellVars, stores,
                   completer, line_buffer, call, ret, ncalls, logVars>>

(***************************************************************************)
(* TabCompletion.  A completion method returns a list; where the list is   *)
(* built from a set its order is the set's iteration order, so the result  *)
(* of a method is [orders |-> the lists it may return] or                  *)
(* [raises |-> the exception].                                             *)
(***************************************************************************)
Commands ==
    <<<<"c", "o", "n", "n", "e", "c", "t">>, <<"b", "a", "s", "e">>, <<"s",
      "e", "a", "r", "c", "h">>, <<"i", "n", "f", "o">>, <<"s", "c", "h",
      "e", "m", "a">>, <<"e", "x", "i", "t">>, <<"q", "u", "i", "t">>,
      <<"h", "e", "l", "p">>, <<"h", "i", "s", "t", "o", "r", "y">>, <<"v",
      "a", "l", "i", "d", "a", "t", "e">>, <<"s", "u", "g", "g", "e", "s",
      "t">>>>

DefaultHosts ==
    {<<"l", "o", "c", "a", "l", "h", "o", "s", "t">>,
     <<"l", "d", "a", "p", ".", "e", "x", "a", "m", "p", "l", "e", ".", "c",
       "o", "m">>,
     <<"1", "2", "7", ".", "0", ".", "0", ".", "1">>}

DefaultBaseDns ==
    {<<"d", "c", "=", "e", "x", "a", "m", "p", "l", "e", ",", "d", "c", "=",
       "c", "o", "m">>,
     <<"o", "u", "=", "p", "e", "o", "p", "l", "e", ",", "d", "c", "=", "e",
       "x", "a", "m", "p", "l", "e", ",", "d", "c", "=", "c", "o", "m">>,
     <<"o", "u", "=", "g", "r", "o", "u", "p", "s", ",", "d", "c", "=", "e",
       "x", "a", "m", "p", "l", "e", ",", "d", "c", "=", "c", "o", "m">>}

DefaultFilters ==
    {<<"(", "o", "b", "j", "e", "c", "t", "C", "l", "a", "s", "s", "=", "*",
       ")">>,
     <<"(", "c", "n", "=", "*", ")">>,
     <<"(", "u", "i", "d", "=", "*", ")">>,
     <<"(", "&", "(", "o", "b", "j", "e", "c", "t", "C", "l", "a", "s", "s",
       "=", "p", "e", "r", "s", "o", "n", ")", "(", "c", "n", "=", "*", ")",
       ")">>,
     <<"(", "|", "(", "u", "i", "d", "=", "*", ")", "(", "m", "a", "i", "l",
       "=", "*", ")", ")">>}

SearchFirstCandidates ==
    <<<<"(", "o", "b", "j", "e", "c", "t", "C", "l", "a", "s", "s", "=",
      "*", ")">>, <<"(", "c", "n", "=", "*", ")">>, <<"(", "u", "i", "d",
      "=", "*", ")">>, <<"-", "-", "h", "e", "l", "p">>>>

SearchOptions ==
    <<<<"-", "a">>, <<"-", "-", "t", "r", "e", "e">>, <<"-", "-", "j", "s",
      "o", "n">>, <<"-", "-", "l", "d", "i", "f">>, <<"-", "-", "c", "s",
      "v">>>>

ConnectSchemes ==
    <<<<"l", "d", "a", "p", ":", "/", "/">>, <<"l", "d", "a", "p", "s", ":",
      "/", "/">>>>

ConnectPorts ==
    <<<<"3", "8", "9">>, <<"6", "3", "6">>>>

t_ssl == <<"-", "-", "s", "s", "l">>
t_attr == <<"-", "-", "a", "t", "t", "r">>

HistoryTypes == <<k_search, k_base, k_host>>

\* text occurs somewhere in s
IsPrefixAnywhere(s, text) == Contains(s, text)

\* s.startswith(text)
IsPrefix(s, text) ==
    Len(text) <= Len(s) /\ SubSeq(s, 1, Len(text)) = text

\* [x for x in l if x.startswith(text)]
Matching(l, text) == SelectSeq(l, LAMBDA x : IsPrefix(x, text))

\* the lists that hold every element of the set once
RECURSIVE Orders(_)
Orders(S) ==
    IF S = {} THEN {<<>>}
    ELSE UNION {{<<x>> \o o : o \in Orders(S \ {x})} : x \in S}

\* set(x): the elements, or the exception
SetOf(x) ==
    IF "list" \in DOMAIN x
    THEN IF \A i \in 1..Len(x.list) : Hashable(x.list[i])
         THEN [set |-> Range(x.list)]
         ELSE [raises |-> "TypeError"]
    ELSE IF "str" \in DOMAIN x
    THEN [set |-> {PyStr(<<x.str[i]>>) : i \in 1..Len(x.str)}]
    ELSE IF "dict" \in DOMAIN x THEN [set |-> DOMAIN x.dict]
    ELSE [raises |-> "TypeError"]

\* get_hosts_completion, get_base_dns_completion and
\* get_search_filters_completion on the value x of the category
HistoryCompletion(x, defaults, text) ==
    LET elements == SetOf(x)
        pool == IF elements.set = {} THEN {PyStr(d) : d \in defaults}
                ELSE elements.set
    IN  IF "raises" \in DOMAIN elements THEN elements
        ELSE IF \E v \in pool : "str" \notin DOMAIN v
        THEN [raises |-> "AttributeError"]
        ELSE [orders |->
                Orders({v.str : v \in {w \in pool : IsPrefix(w.str, text)}})]

HostsCompletion(history, text) ==
    HistoryCompletion(history[PyStr(k_host)], DefaultHosts, text)

BaseDnsCompletion(history, text) ==
    HistoryCompletion(history[PyStr(k_base)], DefaultBaseDns, text)

SearchFiltersCompletion(history, text) ==
    HistoryCompletion(history[PyStr(k_search)], DefaultFilters, text)

\* get_commands
CommandsCompletion(prefix) == [orders |-> {Matching(Commands, prefix)}]

\* the fixed list l
Fixed(l) == [orders |-> {l}]

\* complete_search
CompleteSearch(history, text, line) ==
    LET args == Split(line)
    IN  IF Len(args) = 1 /\ text = <<>> THEN Fixed(SearchFirstCandidates)
        ELSE IF Len(args) = 2 \/ (Len(args) = 1 /\ text # <<>>)
        THEN SearchFiltersCompletion(history, text)
        ELSE IF StartsWith(text, "-")
        THEN Fixed(Matching(SearchOptions, text))
        ELSE Fixed(<<>>)

\* complete_connect
CompleteConnect(history, text, line) ==
    LET args == Split(line)
        hosts == HostsCompletion(history, <<>>)
    IN  IF Len(args) = 1 /\ text = <<>>
        THEN IF "raises" \in DOMAIN hosts THEN hosts
             ELSE [orders |-> {ConnectSchemes \o o : o \in hosts.orders}]
        ELSE IF Len(args) <= 2 \/ (Len(args) = 1 /\ text # <<>>)
        THEN HostsCompletion(history, text)
        ELSE IF Len(args) = 3 \/ (Len(args) = 2 /\ text # <<>>)
        THEN IF StartsWith(text, "-")
             THEN Fixed(IF IsPrefix(t_ssl, text) THEN <<t_ssl>> ELSE <<>>)
             ELSE Fixed(IF text = <<>> THEN ConnectPorts ELSE <<>>)
        ELSE IF Len(args) >= 4 /\ StartsWith(text, "-")
        THEN Fixed(Matching(<<t_ssl>>, text))
        ELSE Fixed(<<>>)

\* complete_base
CompleteBase(history, text, line) ==
    LET args == Split(line)
    IN  IF Len(args) <= 2 \/ (Len(args) = 1 /\ text # <<>>)
        THEN BaseDnsCompletion(history, text)
        ELSE Fixed(<<>>)

\* complete_history
CompleteHistory(history, text, line) ==
    IF Len(Split(line)) = 1 THEN Fixed(Matching(HistoryTypes, text))
    ELSE Fixed(<<>>)

\* complete_schema
CompleteSchema(history, text, line) ==
    IF Len(Split(line)) = 2 /\ IsPrefix(text, <<"-", "-">>)
    THEN Fixed(IF IsPrefix(t_attr, text) THEN <<t_attr>> ELSE <<>>)
    ELSE Fixed(<<>>)

\* TabCompletion(query_history): with no query history given it calls
\* QueryHistory()
TabCompletion(query_history) ==
    /\ completer = None
    /\ IF query_history = None
       THEN LET loaded == Loaded(history_file)
            IN  IF "raises" \in DOMAIN loaded
                THEN /\ ret' = loaded
                     /\ UNCHANGED <<stores, completer>>
                ELSE /\ stores' = Append(stores, loaded.history)
                     /\ completer' = Some([store |-> Len(stores) + 1,
                                           matches |-> None,
                                           asked |-> None])
                     /\ ret' = NoRet
       ELSE /\ query_history[1] \in 1..Len(stores)
            /\ completer' = Some([store |-> query_history[1],
                                  matches |-> None, asked |-> None])
            /\ ret' = NoRet
            /\ UNCHANGED stores
    /\ call' = [op |-> "TabCompletion", query_history |-> query_history]
    /\ ncalls' = ncalls + 1
    /\ UNCHANGED <<COMMAND_PATTERNS, instVars, ctxVars, shellVars,
                   history_file, line_buffer, logVars>>

\* the history dictionary the completer reads
CompleterHistory == stores[completer[1].store]

\* a call of a completion method whose result is result
Completion(op, result, text, line) ==
    /\ IF "raises" \in DOMAIN result
       THEN ret' = result
       ELSE \E o \in result.orders : ret' = [returns |-> o]
    /\ call' = [op |-> op, text |-> text, line |-> line]
    /\ ncalls' = ncalls + 1
    /\ UNCHANGED <<COMMAND_PATTERNS, instVars, ctxVars, shellVars,
                   completionVars, logVars>>

complete_search(text, line) ==
    /\ completer # None
    /\ Completion("complete_search",
                  CompleteSearch(CompleterHistory, text, line), text, line)

complete_connect(text, line) ==
    /\ completer # None
    /\ Completion("complete_connect",
                  CompleteConnect(CompleterHistory, text, line), text, line)

complete_base(text, line) ==
    /\ completer # None
    /\ Completion("complete_base",
                  CompleteBase(CompleterHistory, text, line), text, line)

complete_history(text, line) ==
    /\ completer # None
    /\ Completion("complete_history",
                  CompleteHistory(CompleterHistory, text, line), text, line)

complete_schema(text, line) ==
    /\ completer # None
    /\ Completion("complete_schema",
                  CompleteSchema(CompleterHistory, text, line), text, line)

get_commands(prefix) ==
    /\ completer # None
    /\ Completion("get_commands", CommandsCompletion(prefix), prefix, <<>>)

get_hosts_completion(text) ==
    /\ completer # None
    /\ Completion("get_hosts_completion",
                  HostsCompletion(CompleterHistory, text), text, <<>>)

get_base_dns_completion(text) ==
    /\ completer # None
    /\ Completion("get_base_dns_completion",
                  BaseDnsCompletion(CompleterHistory, text), text, <<>>)

get_search_filters_completion(text) ==
    /\ completer # None
    /\ Completion("get_search_filters_completion",
                  SearchFiltersCompletion(CompleterHistory, text), text, <<>>)

t_connect == <<"c", "o", "n", "n", "e", "c", "t">>
t_history == <<"h", "i", "s", "t", "o", "r", "y">>

\* the match list complete builds when state is 0
Matches(history, text, line) ==
    LET parts == Split(line)
        command == parts[1]
    IN  IF line = <<>> THEN CommandsCompletion(<<>>)
        ELSE IF Len(parts) = 1 /\ ~EndsWith(line, " ")
        THEN CommandsCompletion(text)
        ELSE IF parts = <<>> THEN Fixed(<<>>)
        ELSE IF command = c_search THEN CompleteSearch(history, text, line)
        ELSE IF command = t_connect THEN CompleteConnect(history, text, line)
        ELSE IF command = t_base THEN CompleteBase(history, text, line)
        ELSE IF command = t_history
        THEN CompleteHistory(history, text, line)
        ELSE IF command = c_schema THEN CompleteSchema(history, text, line)
        ELSE Fixed(<<>>)

\* self.matches[0] for every state
MatchFirst(matches, state) ==
    IF matches = None THEN None
    ELSE IF matches[1] = <<>> THEN None
    ELSE Some(matches[1][1])

\* self.matches[state], None on IndexError and AttributeError
Match(matches, state) ==
    IF matches = None THEN None
    ELSE IF state + 1 <= Len(matches[1]) THEN Some(matches[1][state + 1])
    ELSE None

\* the texts readline may ask to complete in the line: the ends of the line
\* that hold no whitespace
IsWordOf(text, line) ==
    /\ Len(text) <= Len(line)
    /\ SubSeq(line, Len(line) - Len(text) + 1, Len(line)) = text
    /\ \A i \in 1..Len(text) : text[i] \notin Whitespace

\* the calls readline makes: with a text of the line buffer, state 0 first
\* and then state 1, 2, ... for the same text
AsReadline(text, state) ==
    /\ completer # None
    /\ IsWordOf(text, line_buffer)
    /\ IF state = 0 THEN TRUE
       ELSE completer[1].asked = Some([text |-> text, state |-> state - 1])

\* TabCompletion.complete
complete(text, state) ==
    /\ completer # None
    /\ IF state = 0
       THEN LET result == Matches(CompleterHistory, text, line_buffer)
            IN  IF "raises" \in DOMAIN result
                THEN /\ ret' = result
                     /\ completer' =
                          Some([completer[1] EXCEPT !.asked = None])
                ELSE \E o \in result.orders :
                       /\ completer' =
                            Some([completer[1] EXCEPT
                                    !.matches = Some(o),
                                    !.asked = Some([text |-> text,
                                                    state |-> 0])])
                       /\ ret' = [returns |-> Match(Some(o), 0)]
       ELSE /\ ret' = [returns |-> Match(completer[1].matches, state)]
            /\ completer' =
                 Some([completer[1] EXCEPT
                         !.asked = Some([text |-> text, state |-> state])])
    /\ call' = [op |-> "complete", text |-> text, state |-> state]
    /\ ncalls' = ncalls + 1
    /\ UNCHANGED <<COMMAND_PATTERNS, instVars, ctxVars, shellVars,
                   history_file, stores, line_buffer, logVars>>

\* the user edits the line: readline's buffer changes
edit_line(line) ==
    /\ line # line_buffer
    /\ line_buffer' = line
    /\ completer' = IF completer = None THEN None
                    ELSE Some([completer[1] EXCEPT !.asked = None])
    /\ UNCHANGED <<COMMAND_PATTERNS, instVars, ctxVars, shellVars,
                   history_file, stores, call, ret, ncalls, logVars>>

(***************************************************************************)
(* help_overlay.parse_partial_command and get_help_for_position.  Where    *)
(* the example list is built from a set, get_help_for_position has one     *)
(* result for every iteration order of the set.                            *)
(***************************************************************************)
\* the commands parse_partial_command classifies the arguments of
PositionCommands ==
    {c_search, c_info, c_add, c_modify, c_delete, c_rename, c_compare,
     c_schema}

\* current_arg_type of the command at the argument index
ArgType(command, index) ==
    IF command \in PositionCommands
    THEN IF index = 1 THEN Some("host")
         ELSE IF index = 2 THEN Some("base_dn")
         ELSE IF index = 3 /\ command = c_search THEN Some("filter")
         ELSE None
    ELSE None

\* parse_partial_command(input_text)
ParsePartialCommand(input_text) ==
    LET parts == Split(Strip(input_text))
    IN  IF parts = <<>>
        THEN [full_text |-> input_text, command |-> None, args |-> <<>>,
              current_arg_index |-> 0, current_arg_type |-> None]
        ELSE [full_text |-> input_text, command |-> Some(parts[1]),
              args |-> Tail(parts),
              current_arg_index |-> Len(parts) - 1,
              current_arg_type |-> ArgType(parts[1], Len(parts) - 1)]

\* l[:n]
FirstOf(l, n) == IF Len(l) > n THEN SubSeq(l, 1, n) ELSE l

\* the sequence with the element x put before the first element that has a
\* smaller count: one step of a stable sort by descending count
RECURSIVE InsertedByCount(_, _)
InsertedByCount(sorted, x) ==
    IF sorted = <<>> THEN <<x>>
    ELSE IF sorted[Len(sorted)][2] >= x[2] THEN Append(sorted, x)
    ELSE Append(InsertedByCount(SubSeq(sorted, 1, Len(sorted) - 1), x),
                sorted[Len(sorted)])

\* sorted(items, key=lambda x: x[1], reverse=True)
RECURSIVE SortedByCount(_)
SortedByCount(items) ==
    IF items = <<>> THEN <<>>
    ELSE InsertedByCount(SortedByCount(SubSeq(items, 1, Len(items) - 1)),
                         items[Len(items)])

FrequentLimit == 5

\* frequent_commands of the "Available Commands" help
FrequentCommands(freq) ==
    LET top == FirstOf(SortedByCount(freq), FrequentLimit)
        kept == SelectSeq(top, LAMBDA x : x[2] > 0)
    IN  [i \in 1..Len(kept) |-> kept[i][1]]

\* list(COMMAND_PATTERNS.keys())
CatalogKeys == CommandNames

HostExamples ==
    <<<<"l", "d", "a", "p", ".", "e", "x", "a", "m", "p", "l", "e", ".", "c",
      "o", "m">>, <<"l", "o", "c", "a", "l", "h", "o", "s", "t">>, <<"1",
      "9", "2", ".", "1", "6", "8", ".", "1", ".", "1", "0", "0">>>>

RecentBaseDnExamples ==
    <<<<"d", "c", "=", "e", "x", "a", "m", "p", "l", "e", ",", "d", "c", "=",
      "c", "o", "m">>, <<"o", "u", "=", "p", "e", "o", "p", "l", "e", ",",
      "d", "c", "=", "e", "x", "a", "m", "p", "l", "e", ",", "d", "c", "=",
      "c", "o", "m">>>>

BaseDnExamples ==
    <<<<"d", "c", "=", "e", "x", "a", "m", "p", "l", "e", ",", "d", "c", "=",
      "c", "o", "m">>, <<"o", "u", "=", "p", "e", "o", "p", "l", "e", ",",
      "d", "c", "=", "e", "x", "a", "m", "p", "l", "e", ",", "d", "c", "=",
      "c", "o", "m">>, <<"c", "n", "=", "a", "d", "m", "i", "n", ",", "d",
      "c", "=", "e", "x", "a", "m", "p", "l", "e", ",", "d", "c", "=", "c",
      "o", "m">>>>

FilterExamples ==
    <<<<"(", "o", "b", "j", "e", "c", "t", "C", "l", "a", "s", "s", "=", "*",
      ")">>, <<"(", "c", "n", "=", "u", "s", "e", "r", "*", ")">>, <<"(",
      "&", "(", "o", "b", "j", "e", "c", "t", "C", "l", "a", "s", "s", "=",
      "p", "e", "r", "s", "o", "n", ")", "(", "m", "a", "i", "l", "=", "*",
      "@", "e", "x", "a", "m", "p", "l", "e", ".", "c", "o", "m", ")",
      ")">>>>

\* the tokens at index i of the history lines of the commands with more than
\* i - 1 tokens
TokensAt(history, commands, i) ==
    {Split(history[n])[i] :
       n \in {m \in 1..Len(history) :
                /\ Len(Split(history[m])) >= i
                /\ Split(history[m])[1] \in commands}}

RecentHosts(history) == TokensAt(history, PositionCommands, 2)

RecentBaseDns(history) ==
    TokensAt(history,
             {c_search, c_add, c_modify, c_delete, c_rename, c_compare}, 3)

RecentFilters(history) == TokensAt(history, {c_search}, 4)

\* list(recent)[:n] + canonical, for every order of the set
MergedExamples(recent, n, canonical) ==
    {FirstOf(o, n) \o canonical : o \in Orders(recent)}

\* get_help_for_position for a command the catalog holds
PositionHelps(parsed, history, context) ==
    LET cmd == parsed.command[1]
        args == parsed.args
        arg_type == parsed.current_arg_type
        general ==
            {[title |-> "Help for", command |-> cmd,
              examples |-> COMMAND_PATTERNS[cmd].examples,
              tips |-> COMMAND_PATTERNS[cmd].common_errors,
              options |-> IF cmd = c_search THEN Some("search options")
                          ELSE IF cmd = c_modify
                          THEN Some("modify options") ELSE None]}
    IN  IF cmd = c_search /\ Len(args) >= 1 /\ arg_type = Some("host")
        THEN {[title |-> "LDAP Host", examples |-> e,
               recent |-> RecentHosts(history) # {}] :
                e \in MergedExamples(RecentHosts(history), 3, HostExamples)}
        ELSE IF /\ cmd = c_search /\ Len(args) >= 1
                /\ arg_type = Some("base_dn") /\ context.base_dn # None
                /\ context.base_dn # Some(<<>>)
        THEN {[title |-> "Base DN", examples |-> e,
               recent |-> RecentBaseDns(history) # {}] :
                e \in MergedExamples(RecentBaseDns(history), 3,
                                     RecentBaseDnExamples)}
        ELSE IF cmd = c_search /\ Len(args) >= 2 /\ arg_type = Some("filter")
        THEN {[title |-> "LDAP Filter", examples |-> e] :
                e \in MergedExamples(RecentFilters(history), 2,
                                     FilterExamples)}
        ELSE IF arg_type = Some("host")
        THEN {[title |-> "LDAP Host", examples |-> HostExamples]}
        ELSE IF arg_type = Some("base_dn")
        THEN {[title |-> "Base DN", examples |-> BaseDnExamples]}
        ELSE IF arg_type = Some("filter")
        THEN {[title |-> "LDAP Filter", examples |-> FilterExamples]}
        ELSE general

\* get_help_for_position(parsed, help_context): the results it may return
HelpsForPosition(parsed, history, freq, context) ==
    IF parsed.command = None
    THEN {[title |-> "Available Commands", suggestions |-> CatalogKeys,
           frequent_commands |-> FrequentCommands(freq)]}
    ELSE LET cmd_help == CommandHelp(parsed.command[1])
         IN  IF "error" \in DOMAIN cmd_help
             THEN {[title |-> "Unknown Command",
                    help_text |-> cmd_help.error,
                    suggestions |->
                        IF "suggested_command" \in DOMAIN cmd_help
                        THEN <<cmd_help.suggested_command>> ELSE <<>>]}
             ELSE PositionHelps(parsed, history, context)

\* parse_partial_command called on its own
parse_partial_command(input_text) ==
    /\ ret' = [returns |-> ParsePartialCommand(input_text)]
    /\ call' = [op |-> "parse_partial_command", input_text |-> input_text]
    /\ ncalls' = ncalls + 1
    /\ UNCHANGED <<COMMAND_PATTERNS, completionVars, instVars, ctxVars,
                   shellVars, logVars>>

\* get_help_for_position(parse_partial_command(input_text), help_context) on
\* the HelpContext
get_help_for_position(input_text) ==
    /\ HasReference
    /\ \E help \in HelpsForPosition(ParsePartialCommand(input_text),
                                    command_history, command_frequency,
                                    current_context) :
         ret' = [returns |-> help]
    /\ call' = [op |-> "get_help_for_position", input_text |-> input_text]
    /\ ncalls' = ncalls + 1
    /\ UNCHANGED <<COMMAND_PATTERNS, completionVars, instVars, ctxVars,
                   shellVars, logVars>>

(***************************************************************************)
(* ldapie.interactive.shell.LDAPShell with a server: onecmd and the        *)
(* handlers cmd.Cmd.onecmd dispatches to.  A server object is              *)
(* [uri, made] and a connection is [server, user, bound, made], made being *)
(* the number of the call that created the object; the entries of a search *)
(* are a list made by that search.  How a connect and a search end is      *)
(* ldap3's answer: the outcome argument.                                   *)
(***************************************************************************)
t_suggest == <<"s", "u", "g", "g", "e", "s", "t">>
t_validate == <<"v", "a", "l", "i", "d", "a", "t", "e">>

\* the handlers modelled: do_connect, do_base, do_search, do_info, do_schema,
\* do_validate, do_suggest
SessionHandlers ==
    {t_connect, t_base, c_search, c_info, c_schema, t_validate, t_suggest}

\* ldap3.Server raises, ldap3.Connection (or getpass) raises, the bind succeeds
ConnectOutcomes == {"server raises", "bind raises", "bound"}
\* conn.search raises, finds nothing, finds an entry
SearchOutcomes == {"search raises", "empty", "entries"}

\* the lists of the shell keep their last 20 values
ShellHistoryLen == 20

\* "if v not in l: l.append(v); l = l[-20:]"
Remembered(l, v) ==
    IF \E i \in 1..Len(l) : l[i] = v THEN l
    ELSE LastN(Append(l, v), ShellHistoryLen)

\* str.isdigit on the ASCII digits
IsDigits(s) ==
    s # <<>> /\ \A i \in 1..Len(s) :
                  s[i] \in {"0", "1", "2", "3", "4", "5", "6", "7", "8", "9"}

\* str(int(s)) of a digit string; "0" for zero
RECURSIVE PortText(_)
PortText(s) ==
    IF Len(s) > 1 /\ s[1] = "0" THEN PortText(Tail(s)) ELSE s

\* server_uri of do_connect: a port of 0 is left out ("if port:")
ServerUri(host, port_str, use_ssl) ==
    (IF use_ssl THEN <<"l", "d", "a", "p", "s">> ELSE <<"l", "d", "a", "p">>)
    \o <<":", "/", "/">> \o host
    \o (IF port_str # None /\ PortText(port_str[1]) # <<"0">>
        THEN <<":">> \o PortText(port_str[1]) ELSE <<>>)

\* the record add_error appends
ErrorRecord(command_str, error_msg, now) ==
    [command |-> command_str, error |-> error_msg, timestamp |-> now]

\* LDAPShell.do_connect on the session w = [sh, ctx, st, errs, out, patterns]
do_connect(w, arg, outcome, now) ==
    LET sh == w.sh
        args == Split(arg)
        host == args[1]
        port_str == IF Len(args) > 1 /\ IsDigits(args[2])
                    THEN Some(args[2]) ELSE None
        username == IF Len(args) > 2 /\ ~StartsWith(args[3], "-")
                    THEN Some(args[3]) ELSE None
        use_ssl == \E i \in 1..Len(args) : args[i] = t_ssl
        server == [uri |-> ServerUri(host, port_str, use_ssl), made |-> now]
        conn == [server |-> server, user |-> username, bound |-> TRUE,
                 made |-> now]
        failed == [w EXCEPT
                     !.out = [shows |-> "error", text |-> "Connection failed: "],
                     !.errs = IF sh.help_available
                              THEN Append(@, ErrorRecord(
                                       t_connect \o <<" ">> \o arg, outcome, now))
                              ELSE @]
    IN  IF args = <<>>
        THEN [w EXCEPT !.out = [shows |-> "error",
                                text |-> "Must specify a hostname"]]
        ELSE IF outcome = "server raises" THEN failed
        ELSE IF outcome = "bind raises"
        THEN [failed EXCEPT !.sh.server = Some(server)]
        ELSE [w EXCEPT
                !.sh = [@ EXCEPT !.server = Some(server),
                                 !.conn = Some(conn),
                                 !.connected = TRUE,
                                 !.query_host = Remembered(@, host)],
                !.out = [shows |-> "success", text |-> "Connected to ",
                         host |-> host],
                !.st = IF sh.help_available
                       THEN SessionStateAfter(@, Some(TRUE),
                                Some(username # None), Some(server),
                                Some(conn), Some(use_ssl))
                       ELSE @]

DefaultFilter ==
    <<"(", "o", "b", "j", "e", "c", "t", "C", "l", "a", "s", "s", "=", "*", ")">>

\* "if s.startswith(("'", '"')) and s.endswith(("'", '"')): s = s[1:-1]"
Unquoted(s) ==
    IF /\ (StartsWith(s, "'") \/ StartsWith(s, "\""))
       /\ (EndsWith(s, "'") \/ EndsWith(s, "\""))
    THEN SubSeq(s, 2, Len(s) - 1) ELSE s

\* has do_search a connection and a base DN to search with?
Searches(sh) == sh.connected /\ sh.conn # None /\ sh.base_dn # <<>>

\* LDAPShell.do_search; shlex.split is str.split for an argument without
\* quotes and backslashes
do_search(w, arg, outcome, now) ==
    LET sh == w.sh
        args == Split(arg)
        filter_query == Unquoted(IF args # <<>> THEN args[1] ELSE DefaultFilter)
        attributes == IF Len(args) > 1 THEN Tail(args) ELSE <<"*">>
        entries == <<[base_dn |-> sh.base_dn, filter |-> filter_query,
                      attributes |-> attributes, made |-> now]>>
    IN  IF ~(sh.connected /\ sh.conn # None)
        THEN [w EXCEPT !.out = [shows |-> "error",
                                text |-> "Not connected to any LDAP server"]]
        ELSE IF sh.base_dn = <<>>
        THEN [w EXCEPT !.out = [shows |-> "error", text |-> "Base DN not set"]]
        ELSE IF outcome = "search raises"
        THEN [w EXCEPT
                !.out = [shows |-> "error", text |-> "Search failed: "],
                !.errs = IF sh.help_available
                         THEN Append(@, ErrorRecord(
                                  c_search \o <<" ">> \o arg, outcome, now))
                         ELSE @]
        ELSE IF outcome = "empty"
        THEN [w EXCEPT !.out = [shows |-> "warning",
                                text |-> "No entries found."]]
        ELSE [w EXCEPT
                !.out = [shows |-> "entries", entries |-> entries],
                !.sh = [@ EXCEPT
                          !.search_history = Remembered(@, filter_query),
                          !.query_search = Remembered(@, filter_query)],
                !.ctx = IF sh.help_available
                        THEN [@ EXCEPT !.search_results = Some(entries)]
                        ELSE @]

\* LDAPShell.do_base
do_base(w, line) ==
    [w EXCEPT !.sh = HandlerShell(@, line),
              !.out = HandlerConsole(w.sh, line),
              !.ctx = IF w.sh.help_available THEN HandlerContext(@, line)
                      ELSE @]

\* LDAPShell.do_info
do_info(w) ==
    LET sh == w.sh
    IN  IF sh.connected /\ sh.server # None /\ sh.conn # None
        THEN [w EXCEPT !.out = [shows |-> "server info",
                                server |-> sh.server[1], conn |-> sh.conn[1]]]
        ELSE [w EXCEPT !.out = [shows |-> "error",
                                text |-> "Not connected to any LDAP server"]]

\* LDAPShell.do_schema
do_schema(w, arg) ==
    LET sh == w.sh
        args == Split(arg)
    IN  IF sh.connected /\ sh.server # None
        THEN [w EXCEPT !.out =
                [shows |-> "schema", server |-> sh.server[1],
                 object_class |->
                     IF args # <<>> /\ ~(args[1] = t_attr /\ Len(args) > 1)
                     THEN Some(args[1]) ELSE None,
                 attribute |->
                     IF args # <<>> /\ args[1] = t_attr /\ Len(args) > 1
                     THEN Some(args[2]) ELSE None]]
        ELSE [w EXCEPT !.out = [shows |-> "error",
                                text |-> "Not connected to any LDAP server"]]

\* LDAPShell.do_validate: CommandValidator(self.help_context) is given the
\* context and makes none
do_validate(w, arg) ==
    IF arg = <<>>
    THEN [w EXCEPT !.out = [shows |-> "error",
                            text |-> "Please provide a command to validate"]]
    ELSE IF ~w.sh.help_available
    THEN [w EXCEPT !.out = [shows |-> "error",
                            text |-> "Command validation is not available"]]
    ELSE [w EXCEPT !.out = [shows |-> "validation", result |-> Validation(arg)]]

\* LDAPShell.do_suggest
do_suggest(w) ==
    IF ~w.sh.help_available
    THEN [w EXCEPT !.out = [shows |-> "error",
                            text |-> "Context-sensitive help is not available"]]
    ELSE LET s == Suggestions(w.patterns, w.ctx, w.st)
         IN  [w EXCEPT !.patterns = s.patterns,
                       !.out = [shows |-> "suggestions", value |-> s.value]]

\* cmd.Cmd.onecmd: getattr(self, 'do_' + cmd)(arg)
Dispatch(w, line, outcome, now) ==
    LET p == parseline(line)
    IN  IF p.cmd = t_connect THEN do_connect(w, p.arg, outcome, now)
        ELSE IF p.cmd = c_search THEN do_search(w, p.arg, outcome, now)
        ELSE IF p.cmd = t_base THEN do_base(w, line)
        ELSE IF p.cmd = c_info THEN do_info(w)
        ELSE IF p.cmd = c_schema THEN do_schema(w, p.arg)
        ELSE IF p.cmd = t_validate THEN do_validate(w, p.arg)
        ELSE do_suggest(w)

\* one iteration of cmd.Cmd.cmdloop in a shell that may hold a server: the
\* line input() returns goes to LDAPShell.onecmd, which records it and
\* dispatches it
onecmd(line, outcome) ==
    /\ shell # None
    /\ shell[1].class = InteractiveShell
    /\ parseline(line).cmd \in SessionHandlers
    /\ \E w \in {Dispatch([sh |-> shell[1],
                            ctx |-> IF shell[1].help_available
                                    THEN AddedContext(current_context, line)
                                    ELSE current_context,
                            st |-> session_state,
                            errs |-> error_history,
                            out |-> console,
                            patterns |-> COMMAND_PATTERNS],
                           line, outcome, ncalls)} :
         /\ IF shell[1].help_available
            THEN HistoryEffect(line, command_history, command_frequency)
            ELSE UNCHANGED <<command_history, command_frequency, logVars>>
         /\ shell' = Some(w.sh)
         /\ current_context' = w.ctx
         /\ session_state' = w.st
         /\ error_history' = w.errs
         /\ console' = w.out
         /\ COMMAND_PATTERNS' = w.patterns
    /\ typed' = Some(line)
    /\ dispatched' = Some(line)
    /\ call' = [op |-> "onecmd", line |-> line, outcome |-> outcome]
    /\ ret' = NoRet
    /\ ncalls' = ncalls + 1
    /\ UNCHANGED <<completionVars, instVars, dismiss_threads>>

(***************************************************************************)
(* Inputs of the model.                                                    *)
(***************************************************************************)
h1 == <<"h", "1">>
h2 == <<"h", "2">>
b1 == <<"b", "1">>
b2 == <<"b", "2">>
f1 == <<"(", "a", "=", "1", ")">>
t_serch == <<"s", "e", "r", "c", "h">>

OptBool == {None, Some(TRUE), Some(FALSE)}

\* lines, result lists and keyword arguments used by Spec
SpecLines ==
    {Join(<<c_search, h1, b1>>), Join(<<c_info, h2>>), Join(<<t_connect, h1>>)}
SpecResults == {<<>>, <<"entry1">>}
SpecHelpNames == {c_search, t_serch}

(***************************************************************************)
(* Spec: every Session Context method, called in any order.                *)
(***************************************************************************)
Next ==
    \/ ncalls < MaxCalls /\ Construct
    \/ \E l \in SpecLines : ncalls < MaxCalls /\ add_command(l)
    \/ ncalls < MaxCalls /\ add_error(Join(<<t_connect, h1>>), "refused")
    \/ \E c \in OptBool, a \in OptBool, e \in OptBool :
         ncalls < MaxCalls /\ update_session_state(c, a, None, None, e)
    \/ \E r \in SpecResults : ncalls < MaxCalls /\ update_search_results(r)
    \/ ncalls < MaxCalls /\ get_suggestions
    \/ \E n \in SpecHelpNames : ncalls < MaxCalls /\ get_command_help(n)
    \/ \E l \in SpecLines : ncalls < MaxCalls /\ analyze_command(l)

Spec == Init /\ [][Next]_vars

(***************************************************************************)
(* SpecSession: update_session_state with every combination of passed and  *)
(* omitted keyword arguments, between calls that fill the other attributes.*)
(***************************************************************************)
OptServer == {None, Some("server1")}
OptConnection == {None, Some("connection1")}

NextSession ==
    \/ ncalls < MaxCalls /\ Construct
    \/ \E c \in OptBool, a \in OptBool, sv \in OptServer, cn \in OptConnection,
          e \in OptBool :
         ncalls < MaxCalls /\ update_session_state(c, a, sv, cn, e)
    \/ ncalls < MaxCalls /\ add_command(Join(<<c_search, h1, b1, f1>>))
    \/ ncalls < MaxCalls /\ add_error(Join(<<t_connect, h1>>), "refused")

SpecSession == Init /\ [][NextSession]_vars

(***************************************************************************)
(* SpecContext: add_command with lines of every shape: each positional     *)
(* pattern of the catalog commands, an unknown command, blank lines and    *)
(* irregular spacing.                                                      *)
(***************************************************************************)
ContextLines ==
    {Join(<<c_search, h1, b1, f1>>),
     Join(<<c_search, h2, b2>>),
     Join(<<c_search, h1>>),
     c_search,
     Join(<<c_info, h2, b2>>),
     Join(<<c_schema, h1, b1, f1>>),
     Join(<<c_delete, h1, b2, f1>>),
     Join(<<c_interactive, h2, b1>>),
     Join(<<t_connect, h2, b2, f1>>),
     <<>>,
     <<" ", " ">>,
     <<" ">> \o c_compare \o <<" ", "\t">> \o h2 \o <<" ", " ">> \o b1 \o <<" ">>}

NextContext ==
    \/ ncalls < MaxCalls /\ Construct
    \/ \E l \in ContextLines : ncalls < MaxCalls /\ add_command(l)

SpecContext == Init /\ [][NextContext]_vars

(***************************************************************************)
(* SpecHistory: runs of add_command long enough to fill the history and    *)
(* overflow it.                                                            *)
(***************************************************************************)
HistoryLines ==
    {Join(<<c_search, h1, b1>>), Join(<<c_search, h2>>),
     Join(<<t_connect, h1>>), <<>>}

\* may the next add_command use this line?
WithinSwitches(l) ==
    IF log = <<>> THEN TRUE
    ELSE IF log[Len(log)] = l THEN TRUE
    ELSE switches < MaxSwitches

NextHistory ==
    \/ refs = <<>> /\ Construct
    \/ \E l \in HistoryLines :
         /\ Len(log) < HistoryMaxLen + MaxOverflow
         /\ WithinSwitches(l)
         /\ add_command(l)

SpecHistory == Init /\ [][NextHistory]_vars

(***************************************************************************)
(* SpecAnalyze: analyze_command on catalog commands with zero to four      *)
(* arguments, on mistyped and unknown commands and on blank lines, before  *)
(* and after get_suggestions has run.                                      *)
(***************************************************************************)
UnknownTokens ==
    {t_serch, t_connect,
     <<"s", "c", "h", "e">>, <<"s", "e", "a", "m">>,
     <<"r", "e", "n", "e", "t", "e">>, <<"r", "e", "m", "o", "v", "e">>,
     <<"a", "d">>, <<"m", "o", "d">>, <<"l", "s">>, <<"x">>,
     <<"i", "n", "t", "e", "r", "a", "c", "t">>}

ArgumentLists ==
    {<<>>, <<h1>>, <<h1, b1>>, <<h1, b1, f1>>, <<h1, b1, f1, h2>>}

AnalyzeLines ==
    {Join(<<c>> \o a) : c \in CommandSet \cup UnknownTokens, a \in ArgumentLists}
    \cup {<<>>, <<" ">>, <<" ">> \o c_info \o <<" ", " ">>}

NextAnalyze ==
    \/ refs = <<>> /\ Construct
    \/ ncalls < MaxCalls /\ add_command(Join(<<c_search, h1, b1>>))
    \/ ncalls < MaxCalls /\ update_search_results(<<"entry1">>)
    \/ ncalls < MaxCalls /\ get_suggestions
    \/ \E l \in AnalyzeLines : ncalls < MaxCalls /\ analyze_command(l)

SpecAnalyze == Init /\ [][NextAnalyze]_vars

(***************************************************************************)
(* SpecShell: either shell reads lines with and without the help trigger,  *)
(* process_help_key is called on lines of both kinds, and the started      *)
(* dismiss_overlay threads wake up at any time.                            *)
(***************************************************************************)
\* lines whose handlers are do_search, do_info and do_base
ShellLines ==
    {<<>>,
     Join(<<c_search, h1, b1>>),
     Join(<<c_search, h1>>) \o <<"?">>,
     Join(<<c_search, <<"?">> >>),
     c_info,
     c_info \o <<"?">>,
     Join(<<t_base, b1>>),
     Join(<<t_base, b1, <<"?">> >>)}

HelpKeyInputs == {Join(<<c_search, h1>>) \o <<"?">>, c_info}

GetInputLines == {Join(<<c_search, <<"?">> >>), c_info \o <<"?">>, c_info}

NextShell ==
    \/ \E class \in {LegacyShell, InteractiveShell}, help_available \in BOOLEAN :
         ncalls < MaxShellCalls /\ LDAPShell(class, help_available)
    \/ \E l \in ShellLines : ncalls < MaxShellCalls /\ legacy_cmdloop(l)
    \/ \E l \in ShellLines : ncalls < MaxShellCalls /\ cmdloop(l)
    \/ \E l \in GetInputLines : ncalls < MaxShellCalls /\ get_input(l)
    \/ \E l \in HelpKeyInputs : ncalls < MaxShellCalls /\ process_help_key(l)
    \/ dismiss_overlay

SpecShell == Init /\ [][NextShell]_vars

(***************************************************************************)
(* SpecValidate: validate_command on empty, unknown, short and accepted    *)
(* lines of every catalog command, among them the lines the tests and the  *)
(* catalog give as valid, in states with history, errors, a connected      *)
(* session and a catalog get_suggestions has written to.                   *)
(***************************************************************************)
\* tests/test_context_help.py: "Test a valid command"
ValidatorTestLine ==
    <<"s", "e", "a", "r", "c", "h", " ", "l", "d", "a", "p", ".", "e", "x",
      "a", "m", "p", "l", "e", ".", "c", "o", "m", " ", "'", "d", "c", "=",
      "e", "x", "a", "m", "p", "l", "e", ",", "d", "c", "=", "c", "o", "m",
      "'", " ", "'", "(", "o", "b", "j", "e", "c", "t", "C", "l", "a", "s",
      "s", "=", "p", "e", "r", "s", "o", "n", ")", "'">>

\* tests/test_context_help.py: the delete line without the recursive flag
ValidatorTestDelete ==
    <<"d", "e", "l", "e", "t", "e", " ", "l", "d", "a", "p", ".", "e", "x",
      "a", "m", "p", "l", "e", ".", "c", "o", "m", " ", "'", "d", "c", "=",
      "e", "x", "a", "m", "p", "l", "e", ",", "d", "c", "=", "c", "o", "m",
      "'">>

\* COMMAND_PATTERNS["search"]["examples"]
SearchExample1 ==
    <<"s", "e", "a", "r", "c", "h", " ", "l", "d", "a", "p", ".", "e", "x",
      "a", "m", "p", "l", "e", ".", "c", "o", "m", " ", "'", "d", "c", "=",
      "e", "x", "a", "m", "p", "l", "e", ",", "d", "c", "=", "c", "o", "m",
      "'">>

SearchExample2 ==
    <<"s", "e", "a", "r", "c", "h", " ", "l", "d", "a", "p", ".", "e", "x",
      "a", "m", "p", "l", "e", ".", "c", "o", "m", " ", "'", "d", "c", "=",
      "e", "x", "a", "m", "p", "l", "e", ",", "d", "c", "=", "c", "o", "m",
      "'", " ", "'", "(", "o", "b", "j", "e", "c", "t", "C", "l", "a", "s",
      "s", "=", "p", "e", "r", "s", "o", "n", ")", "'", " ", "-", "a", " ",
      "c", "n", " ", "-", "a", " ", "m", "a", "i", "l">>

SearchExample3 ==
    <<"s", "e", "a", "r", "c", "h", " ", "l", "d", "a", "p", ".", "e", "x",
      "a", "m", "p", "l", "e", ".", "c", "o", "m", " ", "'", "d", "c", "=",
      "e", "x", "a", "m", "p", "l", "e", ",", "d", "c", "=", "c", "o", "m",
      "'", " ", "-", "-", "t", "r", "e", "e">>

AuthorsSearchLines ==
    {ValidatorTestLine, SearchExample1, SearchExample2, SearchExample3}

\* an unwrapped filter, a filter cut by a space, a host and a DN holding "-r"
f_bare == <<"a", "=", "1">>
f_open == <<"(", "a", "=", "1">>
h_r == <<"h", "-", "r">>
b_r == <<"c", "n", "=", "a", "-", "r", "x">>

ValidateLines ==
    AuthorsSearchLines
    \cup {ValidatorTestDelete, <<>>, <<" ">>, <<"x">>,
          Join(<<t_serch, h1, b1>>),
          c_search, Join(<<c_search, h1>>), Join(<<c_compare, h1, b1>>),
          Join(<<c_search, h1, b1>>),
          Join(<<c_search, h1, b1, f1>>),
          Join(<<c_search, h1, b1, f1, h2>>),
          Join(<<c_search, h1, b1, f_bare>>),
          Join(<<c_search, h1, b1, f_bare, h2>>),
          Join(<<c_search, h1, b1, f_open, <<"b", ")">> >>),
          Join(<<c_info, h1>>), c_interactive, Join(<<c_schema, h1>>),
          Join(<<c_compare, h1, b1, b2>>),
          Join(<<c_add, h1, b1>>), Join(<<c_modify, h1, b1>>),
          Join(<<c_rename, h1, b1, b2>>),
          Join(<<c_delete, h1>>),
          Join(<<c_delete, h1, b1>>),
          Join(<<c_delete, h1, b1, t_r>>),
          Join(<<c_delete, h1, b1, t_recursive>>),
          Join(<<c_delete, t_r, h1, b1>>),
          Join(<<c_delete, h_r, b1>>),
          Join(<<c_delete, h1, b_r>>)}

NextValidate ==
    \/ refs = <<>> /\ Construct
    \/ ncalls < MaxCalls /\ CommandValidator
    \/ ncalls < MaxCalls /\ add_command(Join(<<c_search, h1, b1>>))
    \/ ncalls < MaxCalls /\ add_error(Join(<<c_search, h1>>), "invalid filter")
    \/ ncalls < MaxCalls
       /\ update_session_state(Some(TRUE), None, None, None, None)
    \/ ncalls < MaxCalls /\ get_suggestions
    \/ \E l \in ValidateLines : ncalls < MaxCalls /\ validate_command(l)

SpecValidate == Init /\ [][NextValidate]_vars

(***************************************************************************)
(* SpecQuery: QueryHistory objects on one path.  A file is left at the     *)
(* path before the first object is constructed; afterwards only the        *)
(* objects write it.                                                       *)
(***************************************************************************)
JString(s) == [string |-> s]
JNumber(n) == [number |-> n]
JArray(a) == [array |-> a]
JStrings(l) == JArray([i \in 1..Len(l) |-> JString(l[i])])

\* the text save_history writes for three lists of strings
HistoryText(searches, bases, hosts) ==
    [json |-> [object |-> (k_search :> JStrings(searches))
                          @@ (k_base :> JStrings(bases))
                          @@ (k_host :> JStrings(hosts))]]

\* n distinct host names: v1, v2, ...
Numbered(n) ==
    [i \in 1..n |-> IF i < 10 THEN <<"v">> \o Digits(i)
                    ELSE <<"v">> \o Digits(i \div 10) \o Digits(i % 10)]

v1 == Numbered(1)[1]

FileWritten == HistoryText(<<f1>>, <<b1>>, <<h1>>)
FileFull == HistoryText(<<>>, <<>>, Numbered(QueryHistoryBound))
FileTooLong == HistoryText(<<>>, <<>>, Numbered(QueryHistoryBound + 1))
FileTwice == HistoryText(<<>>, <<>>, <<h1, h1>>)
FileNumbers == [json |-> JArray(<<JNumber(1), JNumber(2)>>)]
FileNumber == [json |-> JNumber(5)]
FileHostNumber == [json |-> [object |-> (k_host :> JNumber(5))]]
FileHostOfNumbers ==
    [json |-> [object |-> (k_host :> JArray(<<JNumber(1)>>))]]
FilePairs ==
    [json |-> JArray(<<JArray(<<JString(k_host), JStrings(<<h1>>)>>)>>)]

QueryFiles ==
    {[unreadable |-> TRUE], [undecodable |-> TRUE], [corrupt |-> TRUE],
     FileWritten, FileFull, FileTooLong, FileTwice, FileNumbers, FileNumber,
     FileHostNumber, FileHostOfNumbers, FilePairs}

QueryHosts == {<<>>, h1, h2, v1}

NextQuery ==
    \/ \E file \in QueryFiles :
         stores = <<>> /\ history_file = NoFile /\ leave_file(file)
    \/ ncalls < MaxQueryCalls /\ Len(stores) < MaxStores /\ QueryHistory
    \/ \E i \in 1..Len(stores), host \in QueryHosts, o \in SaveOutcomes :
         ncalls < MaxQueryCalls /\ add_host(i, host, o)
    \/ \E i \in 1..Len(stores) :
         ncalls < MaxQueryCalls /\ add_base(i, b1, "written")
    \/ \E i \in 1..Len(stores) :
         ncalls < MaxQueryCalls /\ add_search(i, f1, "written")
    \/ \E i \in 1..Len(stores) : ncalls < MaxQueryCalls /\ get_hosts(i)
    \/ \E i \in 1..Len(stores) : ncalls < MaxQueryCalls /\ get_bases(i)
    \/ \E i \in 1..Len(stores) : ncalls < MaxQueryCalls /\ get_searches(i)

SpecQuery == Init /\ [][NextQuery]_vars

(***************************************************************************)
(* SpecComplete: one TabCompletion object over a QueryHistory, the file    *)
(* left at the path before either exists.  The completion methods that     *)
(* only read are not followed one by another.                              *)
(***************************************************************************)
\* a filter that begins as the default filter (cn=*) does
f_cn == <<"(", "c", "n", "=", "a", ")">>

FileTwoHosts == HistoryText(<<>>, <<>>, <<h1, h2>>)

CompleteFiles ==
    {[corrupt |-> TRUE], FileWritten, FileTwoHosts, FileNumbers,
     FileHostNumber, FileHostOfNumbers}

\* text and line of the calls of complete_search, complete_connect,
\* complete_base, complete_history and complete_schema
SearchCalls ==
    {<<<<>>, <<"s", "e", "a", "r", "c", "h", " ">>>>,
     <<<<"(", "c">>, <<"s", "e", "a", "r", "c", "h", " ", "(", "c">>>>,
     <<<<"-", "-">>, <<"s", "e", "a", "r", "c", "h", " ", "h", "1", " ", "b",
        "1", " ", "-", "-">>>>,
     <<<<"x">>, <<"s", "e", "a", "r", "c", "h", " ", "h", "1", " ", "b", "1",
        " ", "x">>>>}

ConnectCalls ==
    {<<<<>>, <<"c", "o", "n", "n", "e", "c", "t", " ">>>>,
     <<<<"l">>, <<"c", "o", "n", "n", "e", "c", "t", " ", "l">>>>,
     <<<<>>, <<"c", "o", "n", "n", "e", "c", "t", " ", "h", "1", " ">>>>,
     <<<<"-", "-">>, <<"c", "o", "n", "n", "e", "c", "t", " ", "h", "1", " ",
        "-", "-">>>>,
     <<<<"-", "x">>, <<"c", "o", "n", "n", "e", "c", "t", " ", "h", "1", " ",
        "3", "8", "9", " ", "-", "x">>>>,
     <<<<"-", "-", "s">>, <<"c", "o", "n", "n", "e", "c", "t", " ", "h", "1",
        " ", "3", "8", "9", " ", "u", " ", "-", "-", "s">>>>}

BaseCalls ==
    {<<<<"o", "u">>, <<"b", "a", "s", "e", " ", "o", "u">>>>,
     <<<<>>, <<"b", "a", "s", "e", " ", "h", "1", " ", "b", "1", " ">>>>}

HistoryCalls ==
    {<<<<>>, <<"h", "i", "s", "t", "o", "r", "y">>>>,
     <<<<"h">>, <<"h", "i", "s", "t", "o", "r", "y">>>>,
     <<<<"s">>, <<"h", "i", "s", "t", "o", "r", "y", " ", "s">>>>}

SchemaCalls ==
    {<<<<"-", "-">>, <<"s", "c", "h", "e", "m", "a", " ", "-", "-">>>>,
     <<<<"-", "-", "a">>, <<"s", "c", "h", "e", "m", "a", " ", "-", "-", "a">>>>,
     <<<<"-">>, <<"s", "c", "h", "e", "m", "a", " ", "-">>>>,
     <<<<"-", "-", "x">>, <<"s", "c", "h", "e", "m", "a", " ", "-", "-", "x">>>>}

CompleteLines ==
    {<<"s">>,
     <<"s", "e", "a", "r", "c", "h", " ", "(", "c">>,
     <<"c", "o", "n", "n", "e", "c", "t", " ", "h">>,
     <<"c", "o", "n", "n", "e", "c", "t", " ">>,
     <<"s", "c", "h", "e", "m", "a", " ", "-", "-", "a">>,
     <<"z", "z", " ", "y">>,
     <<" ">>}

CommandPrefixes == {<<>>, <<"s">>, <<"z">>}
HostPrefixes == {<<>>, <<"h">>, <<"l">>}
BaseDnPrefixes == {<<"o", "u">>, <<"b">>}
FilterPrefixes == {<<"(", "c">>, <<"(", "a">>}

\* the ends of the line
Suffixes(line) == {SubSeq(line, i, Len(line)) : i \in 1..(Len(line) + 1)}

ReadOnlyOps ==
    {"complete_search", "complete_connect", "complete_base",
     "complete_history", "complete_schema", "get_commands",
     "get_hosts_completion", "get_base_dns_completion",
     "get_search_filters_completion"}

\* may a method that only reads be called now?
MayRead == ncalls < MaxCompleteCalls /\ call.op \notin ReadOnlyOps

NextComplete ==
    \/ \E file \in CompleteFiles :
         /\ stores = <<>> /\ completer = None /\ history_file = NoFile
         /\ leave_file(file)
    \/ ncalls < MaxCompleteCalls /\ stores = <<>> /\ QueryHistory
    \/ \E q \in {None} \cup {Some(i) : i \in 1..Len(stores)} :
         ncalls < MaxCompleteCalls /\ TabCompletion(q)
    \/ \E i \in 1..Len(stores), host \in {h1, h2} :
         ncalls < MaxCompleteCalls /\ add_host(i, host, "written")
    \/ \E i \in 1..Len(stores) : ncalls < MaxCompleteCalls /\ get_hosts(i)
    \/ \E i \in 1..Len(stores) :
         ncalls < MaxCompleteCalls /\ add_search(i, f_cn, "written")
    \/ \E line \in CompleteLines :
         completer # None /\ line_buffer = <<>> /\ edit_line(line)
    \/ \E text \in Suffixes(line_buffer), state \in 0..2 :
         /\ ncalls < MaxCompleteCalls
         /\ AsReadline(text, state)
         /\ complete(text, state)
    \/ \E c \in SearchCalls : MayRead /\ complete_search(c[1], c[2])
    \/ \E c \in ConnectCalls : MayRead /\ complete_connect(c[1], c[2])
    \/ \E c \in BaseCalls : MayRead /\ complete_base(c[1], c[2])
    \/ \E c \in HistoryCalls : MayRead /\ complete_history(c[1], c[2])
    \/ \E c \in SchemaCalls : MayRead /\ complete_schema(c[1], c[2])
    \/ \E prefix \in CommandPrefixes : MayRead /\ get_commands(prefix)
    \/ \E text \in HostPrefixes : MayRead /\ get_hosts_completion(text)
    \/ \E text \in BaseDnPrefixes : MayRead /\ get_base_dns_completion(text)
    \/ \E text \in FilterPrefixes :
         MayRead /\ get_search_filters_completion(text)

SpecComplete == Init /\ [][NextComplete]_vars

(***************************************************************************)
(* SpecStale: complete called with any state at any time, the line edited  *)
(* between the calls.                                                      *)
(***************************************************************************)
StaleLines ==
    {<<"s">>,
     <<"c", "o", "n", "n", "e", "c", "t", " ", "h">>,
     <<"c", "o", "n", "n", "e", "c", "t", " ">>}

NextStale ==
    \/ /\ stores = <<>> /\ completer = None /\ history_file = NoFile
       /\ leave_file(FileTwoHosts)
    \/ ncalls < MaxCompleteCalls /\ TabCompletion(None)
    \/ \E line \in StaleLines : completer # None /\ edit_line(line)
    \/ \E text \in Suffixes(line_buffer), state \in 0..2 :
         /\ ncalls < MaxCompleteCalls
         /\ IsWordOf(text, line_buffer)
         /\ complete(text, state)

SpecStale == Init /\ [][NextStale]_vars

(***************************************************************************)
(* SpecOverlay: the overlay's help for empty, partial and complete lines   *)
(* of catalog and other commands, after histories of catalog commands,     *)
(* shell commands and repeated hosts.                                      *)
(***************************************************************************)
h_example ==
    <<"l", "d", "a", "p", ".", "e", "x", "a", "m", "p", "l", "e", ".", "c",
      "o", "m">>

OverlayLines ==
    {Join(<<c_info, h1>>),
     Join(<<c_search, h1, b1, f1>>),
     Join(<<c_search, h2, b2>>),
     Join(<<t_base, b1>>),
     Join(<<c_search, h_example>>)}

OverlayInputs ==
    {<<>>,
     c_search,
     Join(<<c_search, h1>>),
     Join(<<c_search, h1, b1>>),
     Join(<<c_search, h1, b1, f1>>),
     Join(<<c_info, h1>>),
     Join(<<c_delete, h1, b1>>),
     c_modify,
     t_serch}

\* a catalog or shell command followed by zero to four arguments, and lines
\* with blanks around the tokens
ParseInputs ==
    {Join(<<c>> \o SubSeq(<<h1, b1, f1, h2>>, 1, n)) :
       c \in CommandSet \cup {t_base}, n \in 0..4}
    \cup {<<>>, <<" ">>, <<" ">> \o Join(<<c_info, h1, b1>>) \o <<" ", " ">>}

NextOverlay ==
    \/ refs = <<>> /\ Construct
    \/ \E l \in OverlayLines : ncalls < MaxCalls /\ add_command(l)
    \/ \E t \in OverlayInputs : ncalls < MaxCalls /\ get_help_for_position(t)
    \/ \E t \in ParseInputs : ncalls < MaxCalls /\ parse_partial_command(t)

SpecOverlay == Init /\ [][NextOverlay]_vars

(***************************************************************************)
(* SpecDismiss: help triggers and commands of the read loop while the      *)
(* dismiss_overlay threads sleep; a started thread wakes up as long as the *)
(* process runs.                                                           *)
(***************************************************************************)
TriggerInputs ==
    {Join(<<c_search, h1>>) \o <<"?">>, Join(<<c_info, <<"?">> >>), c_info}

\* the inputs a dismiss_overlay thread restores
RestoredInputs == {Join(<<c_search, h1>>), c_info}

NextDismiss ==
    \/ ncalls < MaxShellCalls /\ LDAPShell(InteractiveShell, TRUE)
    \/ \E l \in {c_info, Join(<<t_base, b1>>)} :
         ncalls < MaxShellCalls /\ cmdloop(l)
    \/ \E l \in TriggerInputs : ncalls < MaxShellCalls /\ process_help_key(l)
    \/ dismiss_overlay

SpecDismiss ==
    Init /\ [][NextDismiss]_vars /\ WF_dismiss_threads(dismiss_overlay)

(***************************************************************************)
(* SpecServer: the interactive shell started with or without a bound       *)
(* connection and a base DN, reading connect, base, search, info, schema,  *)
(* validate and suggest lines while ldap3 answers a connect and a search   *)
(* in every way.                                                           *)
(***************************************************************************)
\* the server and the connection start_interactive_session is handed
server0 == [uri |-> ServerUri(h1, None, FALSE), made |-> 0]
conn0 == [server |-> server0, user |-> None, bound |-> TRUE, made |-> 0]

ServerStarts == {<<None, None, <<>> >>, <<Some(server0), Some(conn0), b2>>}

a_cn == <<"c", "n">>

ServerLines ==
    {Join(<<t_connect, h2>>),
     Join(<<t_base, b1>>),
     c_search,
     Join(<<c_search, f1, a_cn>>),
     c_info,
     c_schema,
     Join(<<t_validate, c_search, h1, b1>>),
     t_suggest}

\* the answers ldap3 can give while the line is handled
OutcomesOf(line) ==
    IF parseline(line).cmd = t_connect THEN ConnectOutcomes
    ELSE IF parseline(line).cmd = c_search THEN SearchOutcomes
    ELSE {"no request"}

NextServer ==
    \/ \E start \in ServerStarts :
         /\ ncalls < MaxServerCalls
         /\ LDAPShell__init__(InteractiveShell, TRUE,
                              start[1], start[2], start[3])
    \/ \E l \in ServerLines : \E o \in OutcomesOf(l) :
         ncalls < MaxServerCalls /\ onecmd(l, o)
    \/ ncalls < MaxServerCalls /\ get_suggestions

SpecServer == Init /\ [][NextServer]_vars

(***************************************************************************)
(* Claims checked under Spec.                                              *)
(***************************************************************************)
\* a step that is a call of the method named op
IsCall(op) == call'.op = op /\ ncalls' = ncalls + 1

\* C1: the Command Catalog equals its load-time contents in every reachable
\* state; no Session Context method adds, removes or reorders an element of
\* an entry's syntax, examples, next-step or common-error lists.
C1_CatalogReadOnly == COMMAND_PATTERNS = CatalogAtLoad

\* the lists C2 says get_suggestions returns in the current state
ExpectedNextCommands ==
    (IF current_context.command # None
     THEN CatalogAtLoad[current_context.command[1]].next_steps ELSE <<>>)
    \o (IF HasSearchResults(current_context) THEN ResultHints ELSE <<>>)

ExpectedTips ==
    (IF current_context.command # None
     THEN CatalogAtLoad[current_context.command[1]].common_errors ELSE <<>>)
    \o (IF session_state.connected /\ ~session_state.authenticated
        THEN <<AuthTip>> ELSE <<>>)
    \o (IF session_state.connected /\ ~session_state.ssl_enabled
        THEN <<SslTip>> ELSE <<>>)

\* C2: get_suggestions returns next_commands equal to the current command's
\* catalog next-steps followed by the four result-set hints exactly when the
\* stored search result is non-empty, and tips equal to the catalog
\* common-errors followed by the authentication tip exactly when connected
\* and not authenticated, then the transport-security tip exactly when
\* connected and not ssl_enabled; every hint at most once, in that order.
C2_SuggestionsExact ==
    call.op = "get_suggestions" =>
        /\ ret.next_commands = ExpectedNextCommands
        /\ ret.tips = ExpectedTips

\* C7: constructing HelpContext again, after any sequence of calls, yields
\* the one existing instance and never re-initialises it: every attribute
\* seen through the new reference equals what the earlier references see.
C7_SingleInstance ==
    [][(IsCall("HelpContext") /\ refs # <<>>) =>
         /\ refs'[Len(refs')] = refs[1]
         /\ ret'.instance = refs[1]
         /\ initialized' = initialized
         /\ UNCHANGED ctxVars]_vars

\* a second reference was handed out after the first one recorded a command,
\* a session update, a result and an error
C7_Witness ==
    /\ call.op = "HelpContext"
    /\ Len(refs) >= 2
    /\ command_history # <<>>
    /\ session_state # InitialSessionState
    /\ error_history # <<>>

(***************************************************************************)
(* Claims checked under SpecSession.                                       *)
(***************************************************************************)
\* the value a session_state field has after a call that passed arg for it
Applied(arg, prior) == IF arg = None THEN prior ELSE arg[1]

\* C8: update_session_state applies exactly the arguments passed as
\* non-null, an explicit False included, leaves every other session_state
\* field at its prior value, and changes nothing in command_history,
\* command_frequency, current_context or error_history.
C8_PartialSessionUpdate ==
    [][IsCall("update_session_state") =>
         /\ session_state'.connected =
              Applied(call'.connected, session_state.connected)
         /\ session_state'.authenticated =
              Applied(call'.authenticated, session_state.authenticated)
         /\ session_state'.ssl_enabled =
              Applied(call'.ssl_enabled, session_state.ssl_enabled)
         /\ session_state'.server =
              (IF call'.server = None THEN session_state.server
               ELSE call'.server)
         /\ session_state'.connection =
              (IF call'.connection = None THEN session_state.connection
               ELSE call'.connection)
         /\ DOMAIN session_state' = DOMAIN session_state
         /\ UNCHANGED <<command_history, command_frequency, current_context,
                        error_history>>]_vars

\* a call that passed connected=False and omitted authenticated and server
\* has turned connected off and kept authenticated and the server, with a
\* command and an error on record
C8_Witness ==
    /\ call.op = "update_session_state"
    /\ call.connected = Some(FALSE)
    /\ call.authenticated = None
    /\ call.server = None
    /\ ~session_state.connected
    /\ session_state.authenticated
    /\ session_state.server # None
    /\ command_history # <<>>
    /\ error_history # <<>>

(***************************************************************************)
(* Claims checked under SpecContext.                                       *)
(***************************************************************************)
\* the commands that take a host, and those that take a base DN, as C6 lists
\* them
C6_TakesHost ==
    {c_search, c_info, c_add, c_modify, c_delete, c_rename, c_compare,
     c_schema}
C6_TakesBaseDn ==
    {c_search, c_add, c_modify, c_delete, c_rename, c_compare}

\* C6: add_command(line) changes current_context only as follows: for a
\* catalog command, command becomes the leading token, token 1 is stored as
\* host when the command takes a host, token 2 as base_dn when it takes one,
\* token 3 as filter only for search; every field the line does not supply
\* keeps its previous value.  For any other line current_context is
\* unchanged.
C6_ContextFrame ==
    [][IsCall("add_command") =>
         LET t == Split(call'.command_str)
             known == t # <<>> /\ t[1] \in CommandSet
             old == current_context
             new == current_context'
         IN  /\ new.command = IF known THEN Some(t[1]) ELSE old.command
             /\ new.host =
                  IF known /\ t[1] \in C6_TakesHost /\ Len(t) >= 2
                  THEN Some(t[2]) ELSE old.host
             /\ new.base_dn =
                  IF known /\ t[1] \in C6_TakesBaseDn /\ Len(t) >= 3
                  THEN Some(t[3]) ELSE old.base_dn
             /\ new.filter =
                  IF known /\ t[1] = c_search /\ Len(t) >= 4
                  THEN Some(t[4]) ELSE old.filter
             /\ new.subcommand = old.subcommand
             /\ new.attributes = old.attributes
             /\ new.search_results = old.search_results
             /\ new.last_entry = old.last_entry
             /\ new.operation_result = old.operation_result
             /\ DOMAIN new = DOMAIN old
             /\ ~known => new = old]_vars

\* an info line with two arguments has replaced the command and the host and
\* kept the base DN and the filter of the search before it
C6_Witness ==
    /\ call.op = "add_command"
    /\ call.command_str = Join(<<c_info, h2, b2>>)
    /\ current_context.command = Some(c_info)
    /\ current_context.host = Some(h2)
    /\ current_context.base_dn = Some(b1)
    /\ current_context.filter = Some(f1)

(***************************************************************************)
(* Claims checked under SpecHistory.                                       *)
(***************************************************************************)
Min(a, b) == IF a < b THEN a ELSE b

\* the last n elements of a sequence
LastOf(s, n) == SubSeq(s, Len(s) - n + 1, Len(s))

\* C4: after n add_command calls command_history holds at most 20 lines and
\* equals the most recent min(n, 20) lines in call order: when the bound is
\* exceeded the oldest line, and only it, is evicted.
C4_HistoryBounded ==
    /\ Len(command_history) <= 20
    /\ command_history = LastOf(log, Min(Len(log), 20))

\* the history is full, lines have been evicted and the lines differ
C4_Witness ==
    /\ Len(log) > HistoryMaxLen + 1
    /\ Len(command_history) = HistoryMaxLen
    /\ switches = MaxSwitches
    /\ log[1] # command_history[1]

\* the leading token of a line, if it has one
LeadingToken(l) == IF Split(l) = <<>> THEN None ELSE Some(Split(l)[1])

\* number of positions of s that hold x
Occurrences(s, x) == Cardinality({i \in 1..Len(s) : s[i] = x})

\* number of lines of s whose leading token is k
CallsWithToken(s, k) ==
    Cardinality({i \in 1..Len(s) : LeadingToken(s[i]) = Some(k)})

\* the number of times the last line of s is repeated at the end of s
RECURSIVE TrailingRun(_)
TrailingRun(s) ==
    IF Len(s) <= 1 THEN Len(s)
    ELSE IF s[Len(s) - 1] # s[Len(s)] THEN 1
    ELSE 1 + TrailingRun(SubSeq(s, 1, Len(s) - 1))

\* C5: N add_command calls with the same line raise the counter of the
\* line's leading token by exactly N and leave min(N, 20) copies of the line
\* in command_history; no other counter changes, none ever decreases, and an
\* eviction from the history does not reduce a counter.  So every counter
\* equals the number of calls made with its token, and the history ends with
\* the run of copies.
C5_FrequencyCounts ==
    /\ \A l \in HistoryLines :
         LeadingToken(l) # None =>
           FreqCount(command_frequency, LeadingToken(l)[1])
             = CallsWithToken(log, LeadingToken(l)[1])
    /\ \A k \in FreqKeys(command_frequency) :
         /\ CallsWithToken(log, k) > 0
         /\ Occurrences([i \in 1..Len(command_frequency) |->
                           command_frequency[i][1]], k) = 1
    /\ log # <<>> =>
         LET n == Min(TrailingRun(log), 20)
         IN  /\ Len(command_history) >= n
             /\ \A i \in 1..n :
                  command_history[Len(command_history) - i + 1] = log[Len(log)]

\* the same line was passed more than 20 times: its counter exceeds the
\* number of copies the history can hold
C5_Witness ==
    /\ TrailingRun(log) > HistoryMaxLen
    /\ LeadingToken(log[Len(log)]) = Some(c_search)
    /\ FreqCount(command_frequency, c_search) > HistoryMaxLen
    /\ Occurrences(command_history, log[Len(log)]) = HistoryMaxLen

(***************************************************************************)
(* Claims checked under SpecAnalyze.                                       *)
(***************************************************************************)
\* is the similarity of catalog name n and token w at least 0.6?
C9_IsClose(n, w) == 10 * Ratio(n, w)[1] >= 6 * Ratio(n, w)[2]

\* is n at least as similar to w as m is?
C9_AtLeastAsClose(n, m, w) ==
    Ratio(n, w)[1] * Ratio(m, w)[2] >= Ratio(m, w)[1] * Ratio(n, w)[2]

\* C9: for a line whose leading token is not a catalog name analyze_command
\* returns a record with an error key and no command key; when catalog names
\* are within the cutoff 0.6 of the token it carries suggested_commands with
\* at most 3 of them, closest first, and the error text names the first;
\* when none is, it carries no suggestion.  A leading token that is a
\* catalog name is never reported as not found.
C9_UnknownCommand ==
    (call.op = "analyze_command" /\ Split(call.command_str) # <<>>) =>
        LET w == Split(call.command_str)[1]
            close == {n \in CommandSet : C9_IsClose(n, w)}
            sg == ret.suggested_commands
        IN  IF w \in CommandSet
            THEN "error" \in DOMAIN ret =>
                   ret.error[1] = "Not enough arguments for '"
            ELSE /\ "error" \in DOMAIN ret
                 /\ "command" \notin DOMAIN ret
                 /\ IF close = {}
                    THEN /\ DOMAIN ret = {"error"}
                         /\ ret.error = <<"Command '", w, "' not found.">>
                    ELSE /\ DOMAIN ret = {"error", "suggested_commands"}
                         /\ Len(sg) = Min(3, Cardinality(close))
                         /\ \A i \in 1..Len(sg) : sg[i] \in close
                         /\ \A i, j \in 1..Len(sg) :
                              i < j => /\ sg[i] # sg[j]
                                       /\ C9_AtLeastAsClose(sg[i], sg[j], w)
                         /\ \A n \in close \ Range(sg) :
                              C9_AtLeastAsClose(sg[Len(sg)], n, w)
                         /\ ret.error =
                              <<"Command '", w, "' not found. Did you mean '",
                                sg[1], "'?">>

\* a mistyped command with three catalog names within the cutoff
C9_Witness ==
    /\ call.op = "analyze_command"
    /\ call.command_str = Join(<<(<<"s", "e", "a", "m">>), h1>>)
    /\ "suggested_commands" \in DOMAIN ret
    /\ Len(ret.suggested_commands) = 3
    /\ ret.suggested_commands[1] = c_search

\* the number of required arguments of each command, as C10 lists them
C10_Required ==
    [c \in CommandSet |->
       CASE c = c_search -> 2
         [] c = c_info -> 1
         [] c = c_compare -> 3
         [] c = c_schema -> 1
         [] c = c_add -> 2
         [] c = c_modify -> 2
         [] c = c_delete -> 2
         [] c = c_rename -> 3
         [] OTHER -> 0]

\* C10: for a catalog command analyze_command returns the
\* not-enough-arguments error carrying the command's syntax template
\* verbatim exactly when the line has fewer than 1 + R tokens; otherwise it
\* returns the success record whose command is the leading token and whose
\* arguments are the remaining tokens in order.
C10_ArgumentCount ==
    (/\ call.op = "analyze_command"
     /\ Split(call.command_str) # <<>>
     /\ Split(call.command_str)[1] \in CommandSet) =>
        LET t == Split(call.command_str)
            template == CatalogAtLoad[t[1]].syntax
        IN  IF Len(t) < 1 + C10_Required[t[1]]
            THEN /\ "error" \in DOMAIN ret
                 /\ "command" \notin DOMAIN ret
                 /\ ret.error =
                      <<"Not enough arguments for '", t[1], "'. Syntax: ",
                        template>>
                 /\ ret.syntax = template
            ELSE /\ "error" \notin DOMAIN ret
                 /\ ret.command = t[1]
                 /\ ret.arguments = Tail(t)
                 /\ ret.syntax = template

\* compare with two arguments is one short; compare with three is accepted
C10_Witness ==
    /\ call.op = "analyze_command"
    /\ call.command_str = Join(<<c_compare, h1, b1>>)
    /\ "error" \in DOMAIN ret
    /\ ret.syntax = syntax_compare

(***************************************************************************)
(* Claims checked under SpecShell.                                         *)
(***************************************************************************)
\* C3: a line in which the help trigger is detected is never executed: when
\* a read-loop iteration shows the overlay for the typed line it hands the
\* empty line to onecmd and no handler runs, and get_input and
\* process_help_key return the empty string for a line holding '?'.
C3_HelpLineNeverExecuted ==
    /\ (call.op \in {"legacy_cmdloop", "cmdloop"} /\ ret.overlay) =>
          (ret.line = <<>> /\ dispatched = None)
    /\ (/\ call.op = "get_input"
        /\ shell[1].help_available
        /\ HasChar(call.line, "?")) => ret.returns = <<>>
    /\ (/\ call.op = "process_help_key"
        /\ HasChar(call.current_input, "?")) => ret.returns = <<>>

(***************************************************************************)
(* Claims checked under SpecValidate.                                      *)
(***************************************************************************)
\* does analyze_command reject the line: no token, an unknown leading token,
\* or fewer tokens than the command requires?
C11_Rejected(line) ==
    LET t == Split(line)
    IN  IF t = <<>> THEN TRUE
        ELSE IF t[1] \notin CommandSet THEN TRUE
        ELSE Len(t) < 1 + C10_Required[t[1]]

\* C11: validate_command returns an error record exactly for the lines
\* analyze_command rejects, and then the very record analyze_command returns
\* ({"error": "Empty command"} for a line without a token); for an accepted
\* line the record keeps the analysis keys, has no error key and adds only
\* validation, preview, warning or suggestion; no call raises.
C11_ErrorsOnlyFromAnalysis ==
    call.op = "validate_command" =>
        LET line == call.command_str
        IN  /\ ("error" \in DOMAIN ret) <=> C11_Rejected(line)
            /\ "raises" \notin DOMAIN ret
            /\ Split(line) = <<>> => ret = [error |-> <<"Empty command">>]
            /\ C11_Rejected(line) => ret = Analysis(line)
            /\ ~C11_Rejected(line) =>
                 /\ ret.command = Split(line)[1]
                 /\ ret.arguments = Tail(Split(line))
                 /\ DOMAIN ret \subseteq
                      DOMAIN Analysis(line)
                      \cup {"validation", "preview", "warning", "suggestion"}

\* a search line a stricter check would reject is validated
C11_Witness ==
    /\ call.op = "validate_command"
    /\ call.command_str = Join(<<c_search, h1, b1>>)
    /\ "validation" \in DOMAIN ret
    /\ COMMAND_PATTERNS # CatalogAtLoad

\* C12: validate_command leaves current_context, session_state,
\* command_frequency and error_history as they are, and command_history
\* either as it is or with the validated line appended.
C12_ValidateFrame ==
    [][IsCall("validate_command") =>
         /\ UNCHANGED <<current_context, session_state, command_frequency,
                        error_history>>
         /\ \/ command_history' = command_history
            \/ command_history' =
                 DequeAppend(command_history, call'.command_str,
                             HistoryMaxLen)]_vars

\* a validation in a state with history, an error and a connected session
C12_Witness ==
    /\ call.op = "validate_command"
    /\ call.command_str = Join(<<c_delete, h1, b1>>)
    /\ command_history # <<>>
    /\ error_history # <<>>
    /\ session_state.connected

\* is the token wrapped in parentheses?
C13_Wrapped(tok) == StartsWith(tok, "(") /\ EndsWith(tok, ")")

C14_AuthorsLinesValid ==
    (call.op = "validate_command" /\ call.command_str \in AuthorsSearchLines)
        => /\ "validation" \in DOMAIN ret
           /\ "preview" \in DOMAIN ret
           /\ "warning" \notin DOMAIN ret

\* C15: for an accepted delete line validate_command returns the leaf-only
\* warning with the suggestion to add the recursive flag exactly when no
\* token of the line is --recursive or -r, and the recursive warning without
\* suggestion exactly when such a token is there.
C15_RecursiveFlagToken ==
    (/\ call.op = "validate_command"
     /\ Len(Split(call.command_str)) >= 3
     /\ Split(call.command_str)[1] = c_delete) =>
        LET t == Split(call.command_str)
            flagged == \E i \in 1..Len(t) : t[i] \in {t_recursive, t_r}
        IN  IF flagged
            THEN /\ ret.warning =
                      "This will delete the entry and all its children recursively"
                 /\ "suggestion" \notin DOMAIN ret
            ELSE /\ ret.warning =
                      "Note: This will only delete the entry if it has no children"
                 /\ "suggestion" \in DOMAIN ret
                 /\ ret.suggestion =
                      "Add --recursive flag to delete the entry and all its children"

(***************************************************************************)
(* Claims checked under SpecQuery.                                         *)
(***************************************************************************)
AddOps == {"add_host", "add_base", "add_search"}
Categories == {PyStr(k_search), PyStr(k_base), PyStr(k_host)}

\* the category an add method writes
CategoryOf(op) ==
    IF op = "add_host" THEN PyStr(k_host)
    ELSE IF op = "add_base" THEN PyStr(k_base)
    ELSE PyStr(k_search)

\* l without every occurrence of the string value, then value
MovedToEnd(l, value) ==
    Append(SelectSeq(l, LAMBDA e : e # PyStr(value)), PyStr(value))

\* C16: an add of a non-empty value returns normally and leaves in its
\* category the other values in their order followed by the value once, cut
\* to the 20 last, and leaves the other categories as they were; an add of
\* an empty value changes neither the store nor the file.
C16_AddMovesToEnd ==
    [][(call'.op \in AddOps /\ ncalls' = ncalls + 1) =>
         LET i == call'.store
             k == CategoryOf(call'.op)
         IN  IF call'.value = <<>>
             THEN stores' = stores /\ history_file' = history_file
             ELSE /\ "raises" \notin DOMAIN ret'
                  /\ stores'[i][k] =
                       PyList(LastN(MovedToEnd(stores[i][k].list,
                                               call'.value),
                                    QueryHistoryBound))
                  /\ \A other \in DOMAIN stores[i] \ {k} :
                       stores'[i][other] = stores[i][other]]_vars

\* C17: every category of every store is a list of at most 20 entries, no
\* two of them equal.
C17_ListsBoundedDistinct ==
    \A i \in 1..Len(stores) : \A k \in Categories :
        /\ "list" \in DOMAIN stores[i][k]
        /\ Len(stores[i][k].list) <= QueryHistoryBound
        /\ \A a, b \in 1..Len(stores[i][k].list) :
             a # b => stores[i][k].list[a] # stores[i][k].list[b]

\* C19: a QueryHistory constructed right after an add that wrote the file
\* holds in every category the list the adding object holds.
C19_RoundTrip ==
    [][(/\ call.op \in AddOps
        /\ call.value # <<>>
        /\ "raises" \notin DOMAIN ret
        /\ "printed" \notin DOMAIN ret
        /\ IsCall("QueryHistory")) =>
         /\ "store" \in DOMAIN ret'
         /\ \A k \in Categories :
              stores'[ret'.store][k] = stores[call.store][k]]_vars

\* a second object was constructed from a file that an add of h2 wrote
C19_Witness ==
    /\ call.op = "QueryHistory"
    /\ "store" \in DOMAIN ret
    /\ ret.store = 2
    /\ "list" \in DOMAIN stores[2][PyStr(k_host)]
    /\ Len(stores[2][PyStr(k_host)].list) > 1
    /\ stores[2][PyStr(k_host)].list[Len(stores[2][PyStr(k_host)].list)]
         = PyStr(h2)

(***************************************************************************)
(* Claims checked under SpecComplete.                                      *)
(***************************************************************************)
\* is the file a JSON object from categories to arrays of strings?
WellShaped(file) ==
    /\ "json" \in DOMAIN file
    /\ "object" \in DOMAIN file.json
    /\ DOMAIN file.json.object \subseteq {k_search, k_base, k_host}
    /\ \A n \in DOMAIN file.json.object :
         /\ "array" \in DOMAIN file.json.object[n]
         /\ \A i \in 1..Len(file.json.object[n].array) :
              "string" \in DOMAIN file.json.object[n].array[i]

\* C18: no constructor call raises, a store constructed from a file that is
\* not well shaped has three empty lists, and no add, get or completion call
\* raises.
C18_ConstructionNeverFails ==
    /\ call.op \in {"QueryHistory", "TabCompletion"} \cup AddOps
                   \cup {"get_hosts", "get_bases", "get_searches",
                         "complete"}
                   \cup ReadOnlyOps
         => "raises" \notin DOMAIN ret
    /\ (call.op = "QueryHistory" /\ "store" \in DOMAIN ret
        /\ ~WellShaped(history_file))
         => stores[ret.store] = EmptyHistory

\* c = text followed by something
Extends(c, text) ==
    \E n \in 0..Len(c) : c = text \o SubSeq(c, n + 1, Len(c))

Strings(x) == {x.list[i].str : i \in 1..Len(x.list)}

\* C21: get_search_filters_completion returns the recorded filters and the
\* default filters that begin with the text: the default filters alone while
\* no filter is recorded, and both once one is.
C21_DefaultsStay ==
    (/\ call.op = "get_search_filters_completion"
     /\ "returns" \in DOMAIN ret
     /\ "list" \in DOMAIN CompleterHistory[PyStr(k_search)])
      => Range(ret.returns) =
           {f \in Strings(CompleterHistory[PyStr(k_search)])
                    \cup DefaultFilters : Extends(f, call.text)}

(***************************************************************************)
(* Claims checked under SpecStale.                                         *)
(***************************************************************************)
\* the element of l at index state counted from 0, None past the end
Nth(l, state) == IF state < Len(l) THEN Some(l[state + 1]) ELSE None

\* C22 as stated: what complete(text, k) returns is the k-th candidate for
\* the current line, the text and the history, whatever was called before.
C22_Stateless ==
    (call.op = "complete" /\ "returns" \in DOMAIN ret)
      => \E o \in Matches(CompleterHistory, call.text, line_buffer).orders :
           ret.returns = Nth(o, call.state)

\* C22: complete(text, 0) builds the candidates for the current line, the
\* text and the history, keeps them and returns the first; for k > 0
\* complete(text, k) leaves the kept list as it is and returns its k-th
\* element, None when no list is kept or the list is shorter.
C22_KeptMatches ==
    [][IsCall("complete") =>
         IF call'.state = 0
         THEN \E o \in Matches(CompleterHistory, call'.text,
                               line_buffer).orders :
                /\ completer'[1].matches = Some(o)
                /\ ret'.returns = Nth(o, 0)
         ELSE /\ completer'[1].matches = completer[1].matches
              /\ ret'.returns =
                   IF completer[1].matches = None THEN None
                   ELSE Nth(completer[1].matches[1], call'.state)]_vars

\* complete("h", 1) on the line "connect h" returned a command name kept
\* from the line "s"
C22_Witness ==
    /\ call.op = "complete"
    /\ call.state = 1
    /\ call.text = <<"h">>
    /\ line_buffer = <<"c", "o", "n", "n", "e", "c", "t", " ", "h">>
    /\ ret.returns = Some(c_schema)

(***************************************************************************)
(* Claims checked under SpecOverlay.                                       *)
(***************************************************************************)
\* the index of the name in the catalog, 0 for other names
CatalogIndex(name) ==
    IF name \in CommandSet
    THEN CHOOSE i \in 1..Len(CommandNames) : CommandNames[i] = name
    ELSE 0

\* C23: the help for a line with no command token lists the catalog names,
\* and its frequently-used list holds at most 5 names, each a catalog name
\* with a positive count, by descending count and, among equal counts, in
\* catalog order.
C23_FrequentCommands ==
    (call.op = "get_help_for_position"
     /\ ret.returns.title = "Available Commands")
      => LET f == ret.returns.frequent_commands
         IN  /\ ret.returns.suggestions = CommandNames
             /\ Len(f) <= 5
             /\ \A i \in 1..Len(f) :
                  /\ f[i] \in CommandSet
                  /\ FreqCount(command_frequency, f[i]) > 0
             /\ \A i, j \in 1..Len(f) :
                  i < j =>
                    \/ FreqCount(command_frequency, f[i])
                         > FreqCount(command_frequency, f[j])
                    \/ /\ FreqCount(command_frequency, f[i])
                            = FreqCount(command_frequency, f[j])
                       /\ CatalogIndex(f[i]) < CatalogIndex(f[j])

\* the place of the last history line that holds the value as token i
LastUse(value, i) ==
    LET uses == {m \in 1..Len(command_history) :
                   /\ Len(Split(command_history[m])) >= i
                   /\ Split(command_history[m])[i] = value}
    IN  IF uses = {} THEN 0
        ELSE CHOOSE m \in uses : \A n \in uses : n <= m

\* C24: the examples of a host, base DN or filter help are at most 3 values
\* of the history, the most recently used ones, followed by the canonical
\* examples that are not among them, and no example is listed twice.
C24_ExamplesMerged ==
    (call.op = "get_help_for_position"
     /\ ret.returns.title \in {"LDAP Host", "Base DN", "LDAP Filter"})
      => LET title == ret.returns.title
             ex == ret.returns.examples
             i == IF title = "LDAP Host" THEN 2
                  ELSE IF title = "Base DN" THEN 3 ELSE 4
             used == {v \in UNION {Range(Split(command_history[m])) :
                                     m \in 1..Len(command_history)} :
                        LastUse(v, i) > 0}
             n == Min(3, Cardinality(used))
             first == SubSeq(ex, 1, Min(n, Len(ex)))
             rest == SubSeq(ex, Min(n, Len(ex)) + 1, Len(ex))
             Fresh(canonical) ==
                 SelectSeq(canonical, LAMBDA e : e \notin Range(first))
         IN  /\ \A a, b \in 1..Len(ex) : a # b => ex[a] # ex[b]
             /\ Len(first) = n
             /\ Range(first) \subseteq used
             /\ \A v \in used \ Range(first) : \A w \in Range(first) :
                  LastUse(v, i) < LastUse(w, i)
             /\ rest \in {Fresh(HostExamples), Fresh(BaseDnExamples),
                          Fresh(RecentBaseDnExamples),
                          Fresh(FilterExamples)}

\* the field add_command stores the last token of the line in
StoredAs(parts) ==
    LET ctx == ContextAfter(InitialContext, parts)
        i == Len(parts) - 1
    IN  IF i = 1 /\ ctx.host = Some(parts[2]) THEN Some("host")
        ELSE IF i = 2 /\ ctx.base_dn = Some(parts[3]) THEN Some("base_dn")
        ELSE IF i = 3 /\ ctx.filter = Some(parts[4]) THEN Some("filter")
        ELSE None

\* C25: parse_partial_command classifies the last token of a line as host,
\* base_dn or filter exactly when add_command stores that token of the line
\* as host, base_dn or filter, and as none otherwise.
C25_OneTable ==
    (call.op = "parse_partial_command"
     /\ Split(Strip(call.input_text)) # <<>>)
      => ret.returns.current_arg_type
           = StoredAs(Split(Strip(call.input_text)))

(***************************************************************************)
(* Claims checked under SpecDismiss.                                       *)
(***************************************************************************)
\* the sequence without its element i
Without(l, i) == SubSeq(l, 1, i - 1) \o SubSeq(l, i + 1, Len(l))

\* what the console shows after a dismiss for the input
Restored(input) == [shows |-> "input", input |-> input]

\* C26: process_help_key returns with the overlay shown and its dismiss
\* still pending; the pending dismisses change only by a trigger adding one
\* or by one of them running, which shows the restored input; and every
\* pending dismiss runs.
C26_FireAndForget ==
    /\ [][(IsCall("process_help_key") /\ HasChar(call'.current_input, "?"))
            => LET input == Strip(RemoveChar(call'.current_input, "?"))
               IN  /\ dismiss_threads' = Append(dismiss_threads, input)
                   /\ console' = Overlay(input)]_ncalls
    /\ [][dismiss_threads' # dismiss_threads
            => \/ /\ IsCall("process_help_key")
                  /\ Len(dismiss_threads') = Len(dismiss_threads) + 1
               \/ \E i \in 1..Len(dismiss_threads) :
                    /\ dismiss_threads' = Without(dismiss_threads, i)
                    /\ console' = Restored(dismiss_threads[i])]_dismiss_threads
    /\ \A input \in RestoredInputs :
         (\E i \in 1..Len(dismiss_threads) : dismiss_threads[i] = input)
           ~> (console = Restored(input))
    /\ <>[](dismiss_threads = <<>>)

\* a dismiss ran after a command of the read loop that followed its trigger
C26_Witness ==
    /\ call.op = "cmdloop"
    /\ console = Restored(c_info)
    /\ dismiss_threads = <<>>

\* C27: while an overlay is shown it is the overlay of the newest trigger,
\* and a dismiss that runs shows its own trigger's input whatever overlay is
\* displayed.
C27_StaleDismiss ==
    /\ [][IsCall("process_help_key") /\ HasChar(call'.current_input, "?")
            => console'.input = dismiss_threads'[Len(dismiss_threads')]]_vars
    /\ [][Len(dismiss_threads') < Len(dismiss_threads)
            => \E i \in 1..Len(dismiss_threads) :
                 /\ dismiss_threads' = Without(dismiss_threads, i)
                 /\ console' = Restored(dismiss_threads[i])]_vars

\* the first trigger's dismiss ran over the second trigger's overlay, whose
\* own dismiss is still pending
C27_Witness ==
    /\ console = Restored(Join(<<c_search, h1>>))
    /\ dismiss_threads = <<c_info>>
    /\ call.op = "process_help_key"
    /\ call.current_input = Join(<<c_info, <<"?">> >>)

(***************************************************************************)
(* Claims checked under SpecServer.                                        *)
(***************************************************************************)
\* the step is the shell handling the line of command cmd
Handles(cmd) ==
    IsCall("onecmd") /\ parseline(call'.line).cmd = cmd

\* the step is a search line that reaches conn.search
RunsSearch == Handles(c_search) /\ Searches(shell[1])

\* C28: the result-set hints follow the last search: a search that finds
\* entries leaves a non-empty result in the context, a search that finds
\* nothing or fails leaves none, no other command changes the stored result,
\* and get_suggestions appends the hints exactly when a non-empty result is
\* stored.
C28_HintsFollowLastSearch ==
    /\ [][RunsSearch => (HasSearchResults(current_context')
                           <=> call'.outcome = "entries")]_vars
    /\ [][(IsCall("onecmd") /\ ~RunsSearch)
            => current_context'.search_results
                 = current_context.search_results]_vars
    /\ [][IsCall("get_suggestions")
            => LET cur == current_context.command
                   before == IF cur # None /\ cur[1] \in DOMAIN COMMAND_PATTERNS
                             THEN COMMAND_PATTERNS[cur[1]].next_steps ELSE <<>>
               IN  ret'.next_commands =
                     IF HasSearchResults(current_context)
                     THEN before \o ResultHints ELSE before]_vars

\* C29: once the base command has made the context's base_dn the shell's
\* base DN, the two are equal after every later shell command.
C29_BaseDnAgrees ==
    /\ [][(IsCall("onecmd") /\ SetsBase(call'.line))
            => /\ shell'[1].base_dn = parseline(call'.line).arg
               /\ current_context'.base_dn = Some(shell'[1].base_dn)]_vars
    /\ [][(/\ IsCall("onecmd")
           /\ shell[1].base_dn # <<>>
           /\ current_context.base_dn = Some(shell[1].base_dn))
            => current_context'.base_dn = Some(shell'[1].base_dn)]_vars

\* the step is a connect line with a host that ldap3 does not bind
FailedConnect ==
    /\ Handles(t_connect)
    /\ parseline(call'.line).arg # <<>>
    /\ call'.outcome # "bound"

\* C30: a failed connect appends one error record with the line to
\* error_history and leaves the shell's server, connection and connected flag
\* and the session_state as they were, so the shell's connection is always one
\* to the shell's server.
C30_FailedConnect ==
    /\ [][FailedConnect
            => /\ Len(error_history') = Len(error_history) + 1
               /\ SubSeq(error_history', 1, Len(error_history)) = error_history
               /\ error_history'[Len(error_history')].command = call'.line
               /\ shell'[1].server = shell[1].server
               /\ shell'[1].conn = shell[1].conn
               /\ shell'[1].connected = shell[1].connected
               /\ session_state' = session_state]_vars
    /\ [](shell # None /\ shell[1].conn # None
            => /\ shell[1].server # None
               /\ shell[1].conn[1].server = shell[1].server[1])

====
